---- MODULE Spec2Model ----
(***************************************************************************)
(* Timetable scheduler: the CSP engine (Variable, Domain, ConstraintManager,*)
(* SolutionOptimizer, Solver) and the per-level greedy LevelScheduler.      *)
(*                                                                         *)
(* Modelling conventions                                                   *)
(*  - A TimeSlot is a record (day, start_time, end_time); wall times are    *)
(*    minutes since midnight.  TimeSlot values are usable as set members    *)
(*    (structural equality and hashing, spec section 4.1); they carry no    *)
(*    ordering, exactly as the dataclass in variable.py defines none.       *)
(*  - Python None is NoneSlot for a time and NoneId for an identifier.      *)
(*  - The three candidate sets of a Variable are Python set objects; they   *)
(*    live in `heap`, and a Variable holds the reference `dom` to the cell  *)
(*    with its three sets, so that aliasing between a working Variable and  *)
(*    a recorded one is expressible.                                        *)
(*  - Scores are exact rationals [num, den]; den = 0 encodes an infinity.   *)
(*  - time.time() is monotonic: once elapsed time exceeds the timeout it    *)
(*    stays exceeded.                                                       *)
(***************************************************************************)
EXTENDS Integers, Sequences, FiniteSets, TLC

(***************************************************************************)
(* Bounds of the model                                                     *)
(***************************************************************************)
MaxVars == 2

MaxPostOps == 1

(***************************************************************************)
(* TimeSlot and ResourceRequirements (variable.py)                         *)
(***************************************************************************)
TimeSlot(d, s, e) == [day |-> d, start_time |-> s, end_time |-> e]

NoneSlot == TimeSlot("None", 0, 0)

NoneId == "None"

\* 09:00-10:00, 09:30-10:30 (overlaps the first), 08:00-09:00 (touches the first)
S0900 == TimeSlot("Mon", 540, 600)

S0930 == TimeSlot("Mon", 570, 630)

S0800 == TimeSlot("Mon", 480, 540)

overlaps(a, b) ==
    /\ a.day = b.day
    /\ a.start_time < b.end_time
    /\ b.start_time < a.end_time

ResourceRequirements(rt, cap, lab, proj) ==
    [room_type |-> rt, min_capacity |-> cap, requires_lab |-> lab, requires_projector |-> proj]

\* Python's str ordering on the identifiers that occur in the model
StrOrder == <<"I1", "I2", "L201", "R101", "R102">>

StrRank(s) == CHOOSE k \in 1..Len(StrOrder) : StrOrder[k] = s

\* Python's str ordering on weekday names
DayRank(d) == IF d = "Mon" THEN 1 ELSE IF d = "Tue" THEN 2 ELSE 0

hour(t) == t \div 60

(***************************************************************************)
(* Variable (variable.py).  `dom` refers to the heap cell holding           *)
(* _possible_times, _possible_rooms and _possible_instructors.              *)
(***************************************************************************)
Variable(cid, lvl, req, ref) ==
    [course_id |-> cid, level |-> lvl, requirements |-> req,
     _assigned_time |-> NoneSlot, _assigned_room |-> NoneId,
     _assigned_instructor |-> NoneId, dom |-> ref]

is_assigned(v) ==
    /\ v._assigned_time # NoneSlot
    /\ v._assigned_room # NoneId
    /\ v._assigned_instructor # NoneId

assign(v, t, r, i) ==
    [v EXCEPT !._assigned_time = t, !._assigned_room = r, !._assigned_instructor = i]

unassign(v) ==
    [v EXCEPT !._assigned_time = NoneSlot, !._assigned_room = NoneId,
              !._assigned_instructor = NoneId]

Cell(ts, rs, is) == [times |-> ts, rooms |-> rs, instructors |-> is]

NullCell == Cell({}, {}, {})

\* set_domain rebinds the three attributes to the objects passed in (cell ref)
set_domain(v, ref) == [v EXCEPT !.dom = ref]

get_domain(v, h) == h[v.dom]

\* reduce_domain mutates the three set objects in place (-=); a falsy (empty
\* or None) argument leaves its set alone, which is the same as removing {}
reduce_domain(v, h, ts, rs, is) ==
    [h EXCEPT ![v.dom] = Cell(@.times \ ts, @.rooms \ rs, @.instructors \ is)]

domain_size(v, h) ==
    Cardinality(h[v.dom].times) * Cardinality(h[v.dom].rooms)
        * Cardinality(h[v.dom].instructors)

\* variant: a conflict needs the room and the instructor to coincide
conflicts_with_both(a, b) ==
    IF ~(is_assigned(a) /\ is_assigned(b)) THEN FALSE
    ELSE IF overlaps(a._assigned_time, b._assigned_time)
         THEN a._assigned_room = b._assigned_room
                /\ a._assigned_instructor = b._assigned_instructor
         ELSE FALSE

conflicts_with(a, b) ==
    IF ~(is_assigned(a) /\ is_assigned(b)) THEN FALSE
    ELSE IF overlaps(a._assigned_time, b._assigned_time)
         THEN a._assigned_room = b._assigned_room
                \/ a._assigned_instructor = b._assigned_instructor
         ELSE FALSE

(***************************************************************************)
(* Domain (domain.py)                                                      *)
(***************************************************************************)
RoomAvailability(rt, cap, av) ==
    [room_type |-> rt, capacity |-> cap, available_times |-> av, features |-> {}]

InstructorAvailability(av) ==
    [max_hours_per_day |-> 6, preferred_times |-> <<>>, available_times |-> av]

SeqToSet(s) == {s[k] : k \in 1..Len(s)}

\* Domain built by _load_domain_data from the rows of the store: every room and
\* instructor starts with a copy of the full time-slot list
LoadDomain(slots, roomRows, instrIds) ==
    [time_slots |-> slots,
     rooms |-> [r \in DOMAIN roomRows |->
                  RoomAvailability(roomRows[r][1], roomRows[r][2], slots)],
     instructors |-> [i \in instrIds |-> InstructorAvailability(slots)]]

get_available_values(d, req) ==
    Cell(SeqToSet(d.time_slots),
         {r \in DOMAIN d.rooms :
             /\ d.rooms[r].room_type = req.room_type
             /\ d.rooms[r].capacity >= req.min_capacity
             /\ (~req.requires_lab \/ "lab" \in d.rooms[r].features)
             /\ (~req.requires_projector \/ "projector" \in d.rooms[r].features)},
         DOMAIN d.instructors)

\* list.remove(x): the first occurrence goes; ValueError when there is none
RECURSIVE RemoveFirst(_, _)
RemoveFirst(s, x) ==
    IF s = <<>> THEN <<>>
    ELSE IF Head(s) = x THEN Tail(s)
    ELSE <<Head(s)>> \o RemoveFirst(Tail(s), x)

\* Domain.update_availability(time_slot, room_id, instructor_id): the body
\* handles room_id only; ValueError of list.remove is swallowed
update_availability(d, time_slot, room_id, instructor_id) ==
    IF room_id # NoneId /\ room_id \in DOMAIN d.rooms
    THEN [d EXCEPT !.rooms[room_id].available_times = RemoveFirst(@, time_slot)]
    ELSE d

\* Domain.restore_availability(time_slot, room_id, instructor_id)
restore_availability(d, time_slot, room_id, instructor_id) ==
    LET d1 == IF /\ room_id # NoneId /\ room_id \in DOMAIN d.rooms
                 /\ time_slot \notin SeqToSet(d.rooms[room_id].available_times)
              THEN [d EXCEPT !.rooms[room_id].available_times = Append(@, time_slot)]
              ELSE d
    IN  IF /\ instructor_id # NoneId /\ instructor_id \in DOMAIN d1.instructors
           /\ time_slot \notin SeqToSet(d1.instructors[instructor_id].available_times)
        THEN [d1 EXCEPT !.instructors[instructor_id].available_times = Append(@, time_slot)]
        ELSE d1

(***************************************************************************)
(* Constraints (constraints.py).  A violation is a record; its `variables`  *)
(* are positions in the list that was checked; severity is in tenths.       *)
(***************************************************************************)
ConstraintViolation(ct, vs, sev) ==
    [constraint_type |-> ct, variables |-> vs, severity |-> sev]

RECURSIVE FlattenSeq(_)
FlattenSeq(ss) == IF ss = <<>> THEN <<>> ELSE Head(ss) \o FlattenSeq(Tail(ss))

\* NoOverlapConstraint.check: every pair i < j, in loop order
NoOverlapConstraint_check(vs) ==
    FlattenSeq([i \in 1..Len(vs) |->
        FlattenSeq([k \in 1..(Len(vs) - i) |->
            IF conflicts_with(vs[i], vs[i + k])
            THEN <<ConstraintViolation("resource_overlap", <<i, i + k>>, 10)>>
            ELSE <<>>])])

\* RoomTypeConstraint.check: domain.rooms.get(id) is None for an unknown room
RoomTypeConstraint_check(vs, d) ==
    FlattenSeq([i \in 1..Len(vs) |->
        IF /\ is_assigned(vs[i])
           /\ vs[i]._assigned_room \in DOMAIN d.rooms
           /\ d.rooms[vs[i]._assigned_room].room_type # vs[i].requirements.room_type
        THEN <<ConstraintViolation("room_type_mismatch", <<i>>, 10)>>
        ELSE <<>>])

\* LevelConstraint.check: level_times holds the times of the earlier assigned
\* variables of the same level
LevelConstraint_check_anylevel(vs) ==
    FlattenSeq([i \in 1..Len(vs) |->
        IF /\ is_assigned(vs[i])
           /\ \E j \in 1..(i - 1) :
                 /\ is_assigned(vs[j])
                 /\ overlaps(vs[i]._assigned_time, vs[j]._assigned_time)
        THEN <<ConstraintViolation("level_time_conflict", <<i>>, 10)>>
        ELSE <<>>])

LevelConstraint_check(vs) ==
    FlattenSeq([i \in 1..Len(vs) |->
        IF /\ is_assigned(vs[i])
           /\ \E j \in 1..(i - 1) :
                 /\ is_assigned(vs[j])
                 /\ vs[j].level = vs[i].level
                 /\ overlaps(vs[i]._assigned_time, vs[j]._assigned_time)
        THEN <<ConstraintViolation("level_time_conflict", <<i>>, 10)>>
        ELSE <<>>])

\* ConstraintManager.__init__ registers three hard constraints and no soft one
soft_constraints_check(vs, d) == <<>>

check_assignment(vs, d) ==
    NoOverlapConstraint_check(vs) \o RoomTypeConstraint_check(vs, d)
        \o LevelConstraint_check(vs) \o soft_constraints_check(vs, d)

(***************************************************************************)
(* SolutionOptimizer (optimization.py), in exact rational arithmetic        *)
(***************************************************************************)
NegInf == [num |-> -1, den |-> 0]

\* a > b on scores, at most one of them infinite
ScoreGT(a, b) == a.num * b.den > b.num * a.den

RECURSIVE SumSeq(_)
SumSeq(s) == IF s = <<>> THEN 0 ELSE Head(s) + SumSeq(Tail(s))

\* sorted(level_times, key=(day, start_time)): stable insertion sort
SlotKeyLE(a, b) ==
    \/ DayRank(a.day) < DayRank(b.day)
    \/ DayRank(a.day) = DayRank(b.day) /\ a.start_time <= b.start_time

RECURSIVE InsertSlot(_, _)
InsertSlot(sorted, x) ==
    IF sorted = <<>> THEN <<x>>
    ELSE IF SlotKeyLE(sorted[Len(sorted)], x) THEN Append(sorted, x)
    ELSE Append(InsertSlot(SubSeq(sorted, 1, Len(sorted) - 1), x), sorted[Len(sorted)])

RECURSIVE SortSlots(_)
SortSlots(s) ==
    IF s = <<>> THEN <<>>
    ELSE InsertSlot(SortSlots(SubSeq(s, 1, Len(s) - 1)), s[Len(s)])

AssignedTimes(vs) == SelectSeq(vs, is_assigned)

\* gaps, in minutes (the code divides each gap by 60)
_calculate_gaps_score(vs) ==
    LET av == AssignedTimes(vs)
        levels == {av[k].level : k \in 1..Len(av)}
        LevelSlots(l) ==
            LET lv == SelectSeq(av, LAMBDA v : v.level = l)
            IN  SortSlots([k \in 1..Len(lv) |-> lv[k]._assigned_time])
        LevelGaps(l) ==
            LET st == LevelSlots(l)
            IN  SumSeq([k \in 1..(Len(st) - 1) |->
                    IF st[k].day = st[k + 1].day
                          /\ st[k + 1].start_time - st[k].end_time > 0
                    THEN st[k + 1].start_time - st[k].end_time ELSE 0])
        RECURSIVE SumLevels(_)
        SumLevels(ls) ==
            IF ls = {} THEN 0
            ELSE LET l == CHOOSE x \in ls : TRUE
                 IN  LevelGaps(l) + SumLevels(ls \ {l})
    IN  SumLevels(levels)

\* [satisfied, total]
_calculate_preference_score(vs) ==
    LET av == AssignedTimes(vs)
    IN  [sat |-> Len(SelectSeq(av, LAMBDA v :
                    9 <= hour(v._assigned_time.start_time)
                      /\ hour(v._assigned_time.start_time) <= 16)),
         tot |-> Len(av)]

\* 1 / (1 + variance) = k^2 / (k^2 + k * sum(c^2) - n^2), as [num, den];
\* 0 when nothing is assigned
_calculate_distribution_score(vs) ==
    LET av == AssignedTimes(vs)
        days == {av[k]._assigned_time.day : k \in 1..Len(av)}
        cnt(dy) == Len(SelectSeq(av, LAMBDA v : v._assigned_time.day = dy))
        RECURSIVE SumSq(_)
        SumSq(ds) ==
            IF ds = {} THEN 0
            ELSE LET dy == CHOOSE x \in ds : TRUE
                 IN  cnt(dy) * cnt(dy) + SumSq(ds \ {dy})
        k == Cardinality(days)
        n == Len(av)
    IN  IF days = {} THEN [num |-> 0, den |-> 1]
        ELSE [num |-> k * k, den |-> k * k + k * SumSq(days) - n * n]

\* total = -0.4 * gaps/60 + 0.4 * sat/tot + 0.2 * dist
score_solution(vs) ==
    LET g == _calculate_gaps_score(vs)
        p == _calculate_preference_score(vs)
        ds == _calculate_distribution_score(vs)
    IN  IF p.tot = 0 THEN [num |-> 0, den |-> 1]
        ELSE [num |-> 60 * p.sat * ds.den + 30 * ds.num * p.tot - g * p.tot * ds.den,
              den |-> 150 * p.tot * ds.den]

\* SolutionOptimizer.__init__: best_score is never updated afterwards
optimizer_best_score == NegInf

(***************************************************************************)
(* State                                                                   *)
(***************************************************************************)
VARIABLES
    domain,         \* the Domain: time_slots, rooms, instructors
    variables,      \* the working list of Variables handed to solve
    heap,           \* candidate-set cells, by reference
    max_solutions,  \* argument of solve
    pc,             \* "running" | "returned" | "raised"
    ctl,            \* what the call tree of solve does next
    stack,          \* the open backtrack frames: index, ordered_values, position
    solutions,      \* the local list `solutions` of the running solve
    best_metrics,   \* Solver.best_metrics (survives solve calls)
    best_solution,  \* Solver.best_solution
    stats,          \* Solver.stats
    timed_out,      \* time.time() - start_time > timeout
    run,            \* number of the solve call on this Solver
    input_cells,    \* the candidate sets the caller gave each Variable
    first_result,   \* what the first solve call returned (assignments)
    recorded,       \* every solution recorded so far, over all calls
    snapshots,      \* its content at the moment it was recorded
    last_leaf,      \* the last visit of a complete assignment and its return value
    timeout_seen,   \* whether a frame has seen the timeout exceeded, and `solutions` then
    post_ops,       \* number of caller operations on the working list after solve
    level_arg,      \* schedule_level: the argument `level`
    max_attempts,   \* schedule_level: the argument `max_attempts`
    sorted_vars,    \* schedule_level: sorted_vars, as positions in `variables`
    attempt,        \* schedule_level: the loop variable `attempt`
    sched_pos,      \* schedule_level: position of `var` in sorted_vars
    scheduled_resources, \* LevelScheduler.scheduled_resources
    iter_order,     \* the order in which this process iterates sets
    result,         \* the SchedulingResult returned
    domain_at_call, \* the Domain as it was when solve / schedule_level was called
    last_call,      \* the last call made on the Domain, with its arguments
    levels_file,    \* the level catalogue that load_levels reads
    gen_result,     \* the GeneratorResult returned by generate
    arcs,           \* ac3: the work list `arcs`
    call_result     \* what the last call of a function under test returned

solverVars == <<max_solutions, ctl, stack, solutions, best_metrics, best_solution,
                stats, timed_out, run, first_result, recorded, snapshots, last_leaf,
                timeout_seen, post_ops>>

schedVars == <<level_arg, max_attempts, sorted_vars, attempt, sched_pos,
               scheduled_resources, iter_order, result>>

extVars == <<domain_at_call, last_call, levels_file, gen_result, arcs, call_result>>

vars == <<domain, variables, heap, pc, input_cells, solverVars, schedVars, extVars>>

(***************************************************************************)
(* References                                                              *)
(***************************************************************************)
Refs == 1..(4 * MaxVars + 1)

RefsOf(vs) == {vs[k].dom : k \in 1..Len(vs)}

RefsOfAll(sols) == UNION {RefsOf(sols[k]) : k \in 1..Len(sols)}

FreshRef(used) == CHOOSE r \in Refs \ used : \A q \in Refs \ used : r <= q

\* cells no Variable refers to are garbage
Collect(h, live) == [r \in Refs |-> IF r \in live THEN h[r] ELSE NullCell]

\* what a recorded or working Variable looks like to its reader
Deref(v, h) ==
    [course_id |-> v.course_id, level |-> v.level,
     _assigned_time |-> v._assigned_time, _assigned_room |-> v._assigned_room,
     _assigned_instructor |-> v._assigned_instructor,
     _possible_times |-> h[v.dom].times, _possible_rooms |-> h[v.dom].rooms,
     _possible_instructors |-> h[v.dom].instructors]

DerefAll(vs, h) == [k \in 1..Len(vs) |-> Deref(vs[k], h)]

Assignment(v) == <<v.course_id, v._assigned_time, v._assigned_room, v._assigned_instructor>>

Assignments(sols) == [s \in 1..Len(sols) |-> [k \in 1..Len(sols[s]) |-> Assignment(sols[s][k])]]

(***************************************************************************)
(* Variable.clone: a new Variable whose candidate sets are copies           *)
(***************************************************************************)
\* variant: the copy keeps the original's set objects
clone_shared(v, h, fresh) == [var |-> v, heap |-> h]

clone(v, h, fresh) ==
    [var |-> [v EXCEPT !.dom = fresh], heap |-> [h EXCEPT ![fresh] = h[v.dom]]]

\* [v.clone() for v in variables]
RECURSIVE CloneAll(_, _, _, _)
CloneAll(vs, h, used, k) ==
    IF k > Len(vs) THEN [vars |-> <<>>, heap |-> h]
    ELSE LET c == clone(vs[k], h, FreshRef(used))
             rest == CloneAll(vs, c.heap, used \cup {c.var.dom}, k + 1)
         IN  [vars |-> <<c.var>> \o rest.vars, heap |-> rest.heap]

(***************************************************************************)
(* Solver (solver.py)                                                      *)
(***************************************************************************)
NoneMetrics == [total_score |-> [num |-> 0, den |-> 0]]

Triples(c) == {<<t, r, i>> : t \in c.times, r \in c.rooms, i \in c.instructors}

\* the preliminary score of _order_values: the optimiser on [variable] alone
SoloScore(v, tr) == score_solution(<<assign(v, tr[1], tr[2], tr[3])>>)

SameScore(a, b) == a.num * b.den = b.num * a.den

\* values.sort(reverse=True) compares (score, (t, r, i)) tuples: equal scores
\* fall through to the triples, and two different TimeSlots cannot be ordered
OrderRaises(v, h) ==
    \E a \in Triples(h[v.dom]), b \in Triples(h[v.dom]) :
        /\ a[1] # b[1]
        /\ SameScore(SoloScore(v, a), SoloScore(v, b))

\* a comes before b in the descending sort (equal scores imply equal times here)
SortsBefore(v, a, b) ==
    \/ ScoreGT(SoloScore(v, a), SoloScore(v, b))
    \/ /\ SameScore(SoloScore(v, a), SoloScore(v, b))
       /\ \/ StrRank(a[2]) > StrRank(b[2])
          \/ a[2] = b[2] /\ StrRank(a[3]) > StrRank(b[3])

RECURSIVE SortDesc(_, _)
SortDesc(v, S) ==
    IF S = {} THEN <<>>
    ELSE LET m == CHOOSE x \in S : \A y \in S \ {x} : SortsBefore(v, x, y)
         IN  <<m>> \o SortDesc(v, S \ {m})

_order_values(v, h) == SortDesc(v, Triples(h[v.dom]))

\* _forward_check(variables[from..]): probes each future Variable on its own;
\* the sets it reads through get_domain are only iterated
RECURSIVE _forward_check(_, _, _, _)
_forward_check_assigned(vs, h, d, from) ==
    IF from > Len(vs) THEN [ok |-> TRUE, vars |-> vs, heap |-> h]
    ELSE LET c == h[vs[from].dom]
         IN  IF c.times = {} \/ c.rooms = {} \/ c.instructors = {}
             THEN [ok |-> FALSE, vars |-> vs, heap |-> h]
             ELSE LET valid == \E tr \in Triples(c) :
                          check_assignment(<<assign(vs[from], tr[1], tr[2], tr[3])>>, d) = <<>>
                      last == CHOOSE tr \in Triples(c) : TRUE
                      vs2 == [vs EXCEPT ![from] = assign(@, last[1], last[2], last[3])]
                  IN  IF ~valid THEN [ok |-> FALSE, vars |-> vs2, heap |-> h]
                      ELSE _forward_check(vs2, h, d, from + 1)

_forward_check(vs, h, d, from) ==
    IF from > Len(vs) THEN [ok |-> TRUE, vars |-> vs, heap |-> h]
    ELSE LET c == h[vs[from].dom]
         IN  IF c.times = {} \/ c.rooms = {} \/ c.instructors = {}
             THEN [ok |-> FALSE, vars |-> vs, heap |-> h]
             ELSE LET valid == \E tr \in Triples(c) :
                          check_assignment(<<assign(vs[from], tr[1], tr[2], tr[3])>>, d) = <<>>
                      vs2 == [vs EXCEPT ![from] = unassign(@)]
                  IN  IF ~valid THEN [ok |-> FALSE, vars |-> vs2, heap |-> h]
                      ELSE _forward_check(vs2, h, d, from + 1)

\* _restore_domains(variables[from..]): every one gets three new sets from
\* Domain.get_available_values; `keep` are the references held elsewhere
RECURSIVE _restore_domains(_, _, _, _, _)
_restore_domains(vs, h, d, from, keep) ==
    IF from > Len(vs) THEN [vars |-> vs, heap |-> h]
    ELSE LET ref == FreshRef(RefsOf(vs) \cup keep)
             vs2 == [vs EXCEPT ![from] = set_domain(@, ref)]
             h2 == [h EXCEPT ![ref] = get_available_values(d, vs[from].requirements)]
         IN  _restore_domains(vs2, Collect(h2, RefsOf(vs2) \cup keep), d, from + 1, keep)

\* the value backtrack returns at a complete assignment; nsol counts the
\* solutions collected after this visit
leaf_return(improved, nsol, maxsol, total) ==
    IF improved /\ nsol >= maxsol /\ ScoreGT(total, optimizer_best_score) THEN TRUE
    ELSE nsol < maxsol

Ctl(op, index, value) == [op |-> op, index |-> index, value |-> value]

Frame(index, values) == [index |-> index, ordered_values |-> values, pos |-> 1]

Top == stack[Len(stack)]

KeepRefs == RefsOfAll(recorded)

\* variant: the value tried last stays assigned
BacktrackStep_keep(vs, index) ==
    _restore_domains(vs, heap, domain, index + 2, KeepRefs)

\* the "# Backtrack" lines of the loop body, at the frame of `index`
BacktrackStep(vs, index) ==
    LET vs1 == [vs EXCEPT ![index + 1] = unassign(@)]
    IN  _restore_domains(vs1, heap, domain, index + 2, KeepRefs)

\* backtrack(index) is entered after the timeout has passed
EnterTimeout ==
    /\ pc = "running" /\ ctl.op = "enter" /\ timed_out
    /\ ctl' = Ctl("ret", ctl.index, FALSE)
    /\ timeout_seen' = IF timeout_seen.seen THEN timeout_seen
                       ELSE [seen |-> TRUE, solutions |-> solutions]
    /\ UNCHANGED <<domain, variables, heap, max_solutions, pc, stack, solutions,
                   best_metrics, best_solution, stats, timed_out, run, input_cells,
                   first_result, recorded, snapshots, last_leaf, post_ops>>
    /\ UNCHANGED <<schedVars, extVars>>

\* backtrack(len(variables)): score, maybe record, decide whether to stop
EnterLeaf ==
    /\ pc = "running" /\ ctl.op = "enter" /\ ~timed_out
    /\ ctl.index = Len(variables)
    /\ LET metrics == [total_score |-> score_solution(variables)]
           improved == \/ best_metrics = NoneMetrics
                       \/ ScoreGT(metrics.total_score, best_metrics.total_score)
           cl == CloneAll(variables, heap, RefsOf(variables) \cup KeepRefs, 1)
           nsol == IF improved THEN Len(solutions) + 1 ELSE Len(solutions)
           ret == leaf_return(improved, nsol, max_solutions, metrics.total_score)
       IN  /\ IF improved
              THEN /\ best_metrics' = metrics
                   /\ best_solution' = cl.vars
                   /\ solutions' = Append(solutions, cl.vars)
                   /\ recorded' = Append(recorded, cl.vars)
                   /\ snapshots' = Append(snapshots, DerefAll(cl.vars, cl.heap))
                   /\ heap' = cl.heap
              ELSE UNCHANGED <<best_metrics, best_solution, solutions, recorded,
                               snapshots, heap>>
           /\ last_leaf' = [visited |-> TRUE, ret |-> ret, nsol |-> nsol,
                            clears |-> ScoreGT(metrics.total_score, optimizer_best_score)]
           /\ ctl' = Ctl("ret", ctl.index, ret)
    /\ UNCHANGED <<domain, variables, max_solutions, pc, stack, stats, timed_out,
                   run, input_cells, first_result, timeout_seen, post_ops>>
    /\ UNCHANGED <<schedVars, extVars>>

\* backtrack(index), index < len(variables): ordered_values is computed
EnterOrder ==
    /\ pc = "running" /\ ctl.op = "enter" /\ ~timed_out
    /\ ctl.index < Len(variables)
    /\ ~OrderRaises(variables[ctl.index + 1], heap)
    /\ stack' = Append(stack, Frame(ctl.index, _order_values(variables[ctl.index + 1], heap)))
    /\ ctl' = Ctl("loop", ctl.index, FALSE)
    /\ UNCHANGED <<domain, variables, heap, max_solutions, pc, solutions,
                   best_metrics, best_solution, stats, timed_out, run, input_cells,
                   first_result, recorded, snapshots, last_leaf, timeout_seen, post_ops>>
    /\ UNCHANGED <<schedVars, extVars>>

\* the sort of _order_values raises TypeError, which leaves solve
EnterRaise ==
    /\ pc = "running" /\ ctl.op = "enter" /\ ~timed_out
    /\ ctl.index < Len(variables)
    /\ OrderRaises(variables[ctl.index + 1], heap)
    /\ pc' = "raised"
    /\ UNCHANGED <<domain, variables, heap, max_solutions, ctl, stack, solutions,
                   best_metrics, best_solution, stats, timed_out, run, input_cells,
                   first_result, recorded, snapshots, last_leaf, timeout_seen, post_ops>>
    /\ UNCHANGED <<schedVars, extVars>>

\* variant: assigning books the time slot in the Domain
DomainAfterAssign_booked(d, t, r, i) == update_availability(d, t, r, i)

\* the Domain after variable.assign(t, r, i), as the search loop and
\* _schedule_variable call it: assign sets the Variable's three fields and
\* makes no call on the Domain
DomainAfterAssign(d, t, r, i) == d

\* one pass of `for t, r, i in ordered_values` up to the recursive call
TryValue ==
    /\ pc = "running" /\ ctl.op = "loop"
    /\ Top.pos <= Len(Top.ordered_values)
    /\ LET index == Top.index
           tr == Top.ordered_values[Top.pos]
           vs1 == [variables EXCEPT ![index + 1] = assign(@, tr[1], tr[2], tr[3])]
           violations == check_assignment(SubSeq(vs1, 1, index + 1), domain)
           fc == _forward_check(vs1, heap, domain, index + 2)
       IN  /\ domain' = DomainAfterAssign(domain, tr[1], tr[2], tr[3])
           /\ stats' = [stats EXCEPT !.assignments = @ + 1,
                            !.backtracks = IF violations = <<>> /\ fc.ok THEN @ ELSE @ + 1]
           /\ IF violations = <<>> /\ fc.ok
              THEN /\ variables' = fc.vars
                   /\ ctl' = Ctl("enter", index + 1, FALSE)
                   /\ UNCHANGED <<heap, stack>>
              ELSE LET bt == BacktrackStep(IF violations = <<>> THEN fc.vars ELSE vs1, index)
                   IN  /\ variables' = bt.vars
                       /\ heap' = bt.heap
                       /\ stack' = [stack EXCEPT ![Len(stack)].pos = @ + 1]
                       /\ UNCHANGED ctl
    /\ UNCHANGED <<max_solutions, pc, solutions, best_metrics, best_solution,
                   timed_out, run, input_cells, first_result, recorded, snapshots,
                   last_leaf, timeout_seen, post_ops>>
    /\ UNCHANGED <<schedVars, extVars>>

\* the same pass stopped at the return of _forward_check, before the caller
\* acts on its result
ForwardCheck ==
    /\ pc = "running" /\ ctl.op = "loop"
    /\ Top.pos <= Len(Top.ordered_values)
    /\ LET index == Top.index
           tr == Top.ordered_values[Top.pos]
           vs1 == [variables EXCEPT ![index + 1] = assign(@, tr[1], tr[2], tr[3])]
           fc == _forward_check(vs1, heap, domain, index + 2)
       IN  /\ check_assignment(SubSeq(vs1, 1, index + 1), domain) = <<>>
           /\ variables' = fc.vars
           /\ heap' = fc.heap
           /\ last_call' = [op |-> "_forward_check", from |-> index + 2,
                            ok |-> fc.ok, heap |-> heap]
    /\ pc' = "probed"
    /\ stats' = [stats EXCEPT !.assignments = @ + 1]
    /\ UNCHANGED <<domain, max_solutions, ctl, stack, solutions, best_metrics,
                   best_solution, timed_out, run, input_cells, first_result, recorded,
                   snapshots, last_leaf, timeout_seen, post_ops>>
    /\ UNCHANGED <<schedVars, domain_at_call, levels_file, gen_result, arcs, call_result>>

\* ordered_values is used up: `return False`
Exhausted ==
    /\ pc = "running" /\ ctl.op = "loop"
    /\ Top.pos > Len(Top.ordered_values)
    /\ ctl' = Ctl("ret", Top.index, FALSE)
    /\ stack' = SubSeq(stack, 1, Len(stack) - 1)
    /\ UNCHANGED <<domain, variables, heap, max_solutions, pc, solutions,
                   best_metrics, best_solution, stats, timed_out, run, input_cells,
                   first_result, recorded, snapshots, last_leaf, timeout_seen, post_ops>>
    /\ UNCHANGED <<schedVars, extVars>>

\* `if backtrack(index + 1): return True`
ReturnTrue ==
    /\ pc = "running" /\ ctl.op = "ret" /\ ctl.value /\ stack # <<>>
    /\ ctl' = Ctl("ret", Top.index, TRUE)
    /\ stack' = SubSeq(stack, 1, Len(stack) - 1)
    /\ UNCHANGED <<domain, variables, heap, max_solutions, pc, solutions,
                   best_metrics, best_solution, stats, timed_out, run, input_cells,
                   first_result, recorded, snapshots, last_leaf, timeout_seen, post_ops>>
    /\ UNCHANGED <<schedVars, extVars>>

\* the recursive call returned False: backtrack and go on with the next value
ReturnFalse ==
    /\ pc = "running" /\ ctl.op = "ret" /\ ~ctl.value /\ stack # <<>>
    /\ LET bt == BacktrackStep(variables, Top.index)
       IN  /\ variables' = bt.vars
           /\ heap' = bt.heap
    /\ stats' = [stats EXCEPT !.backtracks = @ + 1]
    /\ stack' = [stack EXCEPT ![Len(stack)].pos = @ + 1]
    /\ ctl' = Ctl("loop", Top.index, FALSE)
    /\ UNCHANGED <<domain, max_solutions, pc, solutions, best_metrics, best_solution,
                   timed_out, run, input_cells, first_result, recorded, snapshots,
                   last_leaf, timeout_seen, post_ops>>
    /\ UNCHANGED <<schedVars, extVars>>

\* backtrack(0) has returned: solve returns `solutions`
Finish ==
    /\ pc = "running" /\ ctl.op = "ret" /\ stack = <<>>
    /\ pc' = "returned"
    /\ first_result' = IF run = 1 THEN Assignments(solutions) ELSE first_result
    /\ UNCHANGED <<domain, variables, heap, max_solutions, ctl, stack, solutions,
                   best_metrics, best_solution, stats, timed_out, run, input_cells,
                   recorded, snapshots, last_leaf, timeout_seen, post_ops>>
    /\ UNCHANGED <<schedVars, extVars>>

\* the clock passes the timeout while solve runs
Tick ==
    /\ pc = "running" /\ ~timed_out
    /\ timed_out' = TRUE
    /\ UNCHANGED <<domain, variables, heap, max_solutions, pc, ctl, stack, solutions,
                   best_metrics, best_solution, stats, run, input_cells,
                   first_result, recorded, snapshots, last_leaf, timeout_seen, post_ops>>
    /\ UNCHANGED <<schedVars, extVars>>

(***************************************************************************)
(* The caller: a second solve on the same Solver with identical inputs, and *)
(* operations on the working Variables after solve has returned             *)
(***************************************************************************)
\* every Variable is unassigned and given new sets equal to its first input
RECURSIVE ReInput(_, _, _, _, _)
ReInput(vs, h, cells, k, keep) ==
    IF k > Len(vs) THEN [vars |-> vs, heap |-> h]
    ELSE LET ref == FreshRef(RefsOf(vs) \cup keep)
             vs2 == [vs EXCEPT ![k] = set_domain(unassign(@), ref)]
             h2 == [h EXCEPT ![ref] = cells[k]]
         IN  ReInput(vs2, Collect(h2, RefsOf(vs2) \cup keep), cells, k + 1, keep)

SolveAgain ==
    /\ pc = "returned" /\ run = 1 /\ post_ops = 0
    /\ LET ri == ReInput(variables, heap, input_cells, 1, KeepRefs)
       IN  /\ variables' = ri.vars
           /\ heap' = ri.heap
    /\ run' = run + 1
    /\ pc' = "running"
    /\ ctl' = Ctl("enter", 0, FALSE)
    /\ stack' = <<>>
    /\ solutions' = <<>>
    /\ timed_out' = FALSE
    /\ last_leaf' = [visited |-> FALSE, ret |-> FALSE, nsol |-> 0, clears |-> FALSE]
    /\ timeout_seen' = [seen |-> FALSE, solutions |-> <<>>]
    /\ UNCHANGED <<domain, max_solutions, best_metrics, best_solution, stats,
                   input_cells, first_result, recorded, snapshots, post_ops>>
    /\ UNCHANGED <<schedVars, extVars>>

\* the values the caller uses in these operations
PostSlot == domain.time_slots[1]

PostAssign ==
    /\ pc = "returned" /\ post_ops < MaxPostOps
    /\ \E k \in 1..Len(variables) :
          variables' = [variables EXCEPT ![k] = assign(@, PostSlot, "L201", "I1")]
    /\ post_ops' = post_ops + 1
    /\ UNCHANGED <<domain, heap, max_solutions, pc, ctl, stack, solutions,
                   best_metrics, best_solution, stats, timed_out, run, input_cells,
                   first_result, recorded, snapshots, last_leaf, timeout_seen>>
    /\ UNCHANGED <<schedVars, extVars>>

PostUnassign ==
    /\ pc = "returned" /\ post_ops < MaxPostOps
    /\ \E k \in 1..Len(variables) :
          variables' = [variables EXCEPT ![k] = unassign(@)]
    /\ post_ops' = post_ops + 1
    /\ UNCHANGED <<domain, heap, max_solutions, pc, ctl, stack, solutions,
                   best_metrics, best_solution, stats, timed_out, run, input_cells,
                   first_result, recorded, snapshots, last_leaf, timeout_seen>>
    /\ UNCHANGED <<schedVars, extVars>>

\* set_domain with three new sets
PostSetDomain ==
    /\ pc = "returned" /\ post_ops < MaxPostOps
    /\ \E k \in 1..Len(variables) :
          LET ref == FreshRef(RefsOf(variables) \cup KeepRefs)
              vs2 == [variables EXCEPT ![k] = set_domain(@, ref)]
          IN  /\ variables' = vs2
              /\ heap' = Collect([heap EXCEPT ![ref] = Cell({PostSlot}, {"L201"}, {"I1"})],
                                 RefsOf(vs2) \cup KeepRefs)
    /\ post_ops' = post_ops + 1
    /\ UNCHANGED <<domain, max_solutions, pc, ctl, stack, solutions,
                   best_metrics, best_solution, stats, timed_out, run, input_cells,
                   first_result, recorded, snapshots, last_leaf, timeout_seen>>
    /\ UNCHANGED <<schedVars, extVars>>

PostReduceDomain ==
    /\ pc = "returned" /\ post_ops < MaxPostOps
    /\ \E k \in 1..Len(variables) :
          heap' = reduce_domain(variables[k], heap, {PostSlot}, {"R102"}, {"I1"})
    /\ post_ops' = post_ops + 1
    /\ UNCHANGED <<domain, variables, max_solutions, pc, ctl, stack, solutions,
                   best_metrics, best_solution, stats, timed_out, run, input_cells,
                   first_result, recorded, snapshots, last_leaf, timeout_seen>>
    /\ UNCHANGED <<schedVars, extVars>>

(***************************************************************************)
(* LevelScheduler (generator/scheduler.py)                                 *)
(***************************************************************************)
\* len() of the room-type names
StrLen(s) == IF s = "Lecture" THEN 7 ELSE IF s = "Lab" THEN 3 ELSE 0

\* the sort key of _sort_by_constraints
SortKey(v, h) ==
    <<0 - StrLen(v.requirements.room_type), 0 - v.requirements.min_capacity,
      0 - Cardinality(h[v.dom].times)>>

KeyLE(a, b) ==
    \/ a[1] < b[1]
    \/ a[1] = b[1] /\ a[2] < b[2]
    \/ a[1] = b[1] /\ a[2] = b[2] /\ a[3] <= b[3]

\* sorted() is stable: an element goes behind the elements whose key is <= its own
RECURSIVE InsertByKey(_, _, _, _)
InsertByKey(sorted, x, vs, h) ==
    IF sorted = <<>> THEN <<x>>
    ELSE IF KeyLE(SortKey(vs[sorted[Len(sorted)]], h), SortKey(vs[x], h))
         THEN Append(sorted, x)
         ELSE Append(InsertByKey(SubSeq(sorted, 1, Len(sorted) - 1), x, vs, h),
                     sorted[Len(sorted)])

RECURSIVE SortPositions(_, _, _)
SortPositions(n, vs, h) ==
    IF n = 0 THEN <<>> ELSE InsertByKey(SortPositions(n - 1, vs, h), n, vs, h)

\* the sorted list holds the same Variable objects: positions in `variables`
_sort_by_constraints(vs, h) == SortPositions(Len(vs), vs, h)

_get_level_conflicts(level) == {}

\* domain.rooms[room] raises KeyError for a room the Domain does not know
FilterRoomsRaises(rooms, d) == \E r \in rooms : r \notin DOMAIN d.rooms

_filter_available_rooms(rooms, req, d) ==
    {r \in rooms : /\ d.rooms[r].room_type = req.room_type
                   /\ d.rooms[r].capacity >= req.min_capacity}

FilterInstructorsRaises(instructors, d) ==
    \E i \in instructors : i \notin DOMAIN d.instructors

_filter_available_instructors(instructors, d) ==
    {i \in instructors : d.instructors[i].max_hours_per_day > 0}

_is_resource_available(sr, resource_type, resource_id, time_slot) ==
    <<resource_id, time_slot>> \notin sr[resource_type]

_mark_resource_used(sr, resource_type, resource_id, time_slot) ==
    [sr EXCEPT ![resource_type] = @ \cup {<<resource_id, time_slot>>}]

_reset_resources == [rooms |-> {}, instructors |-> {}]

\* variant: a retry walks the sets in the opposite order
FirstIn_by_attempt(order, S) ==
    IF attempt = 0
    THEN order[CHOOSE k \in 1..Len(order) :
                   /\ order[k] \in S
                   /\ \A j \in 1..(k - 1) : order[j] \notin S]
    ELSE order[CHOOSE k \in 1..Len(order) :
                   /\ order[k] \in S
                   /\ \A j \in (k + 1)..Len(order) : order[j] \notin S]

\* the first element of S in iteration order
FirstIn(order, S) == order[CHOOSE k \in 1..Len(order) :
                              /\ order[k] \in S
                              /\ \A j \in 1..(k - 1) : order[j] \notin S]

ScheduleRaises(v, h, d) ==
    \/ FilterRoomsRaises(h[v.dom].rooms, d)
    \/ FilterInstructorsRaises(h[v.dom].instructors, d)

\* _schedule_variable: the first (time, room, instructor) of the nested loops
\* whose room and instructor are both free at that exact slot
_schedule_variable(v, h, d, sr, ord) ==
    LET available_times == h[v.dom].times \ _get_level_conflicts(v.level)
        available_rooms == _filter_available_rooms(h[v.dom].rooms, v.requirements, d)
        available_instructors == _filter_available_instructors(h[v.dom].instructors, d)
        FreeRooms(t) == {r \in available_rooms : _is_resource_available(sr, "rooms", r, t)}
        FreeInstructors(t) ==
            {i \in available_instructors : _is_resource_available(sr, "instructors", i, t)}
        good == {t \in available_times : FreeRooms(t) # {} /\ FreeInstructors(t) # {}}
    IN  IF good = {} THEN [ok |-> FALSE, time |-> NoneSlot, room |-> NoneId,
                           instructor |-> NoneId]
        ELSE LET t == FirstIn(ord.times, good)
             IN  [ok |-> TRUE, time |-> t, room |-> FirstIn(ord.rooms, FreeRooms(t)),
                  instructor |-> FirstIn(ord.instructors, FreeInstructors(t))]

NoResult == [success |-> FALSE, variables |-> <<>>, error |-> "None", level |-> 0]

SchedulingResult(success, vs, error, level) ==
    [success |-> success, variables |-> vs, error |-> error, level |-> level]

\* schedule_level is called: the variables are sorted
SchedStart ==
    /\ pc = "sched_call"
    /\ sorted_vars' = _sort_by_constraints(variables, heap)
    /\ attempt' = 0
    /\ pc' = "sched_attempt"
    /\ UNCHANGED <<domain, variables, heap, input_cells, level_arg, max_attempts,
                   sched_pos, scheduled_resources, iter_order, result>>
    /\ UNCHANGED <<solverVars, extVars>>

\* `for attempt in range(max_attempts)`: the resource tracking is reset
AttemptBegin ==
    /\ pc = "sched_attempt" /\ attempt < max_attempts
    /\ scheduled_resources' = _reset_resources
    /\ sched_pos' = 1
    /\ pc' = "sched_var"
    /\ UNCHANGED <<domain, variables, heap, input_cells, level_arg, max_attempts,
                   sorted_vars, attempt, iter_order, result>>
    /\ UNCHANGED <<solverVars, extVars>>

\* what schedule_level has returned once its first attempt is over, were
\* max_attempts 1: the success flag and the assignment of every Variable; the
\* later attempts leave the record alone
AfterAttempt(success, vs) ==
    IF attempt = 0
    THEN [op |-> "schedule_level", success |-> success,
          assignments |-> [k \in 1..Len(vs) |-> Assignment(vs[k])]]
    ELSE call_result

\* the attempts are used up: failure, tagged with the level
AttemptsExhausted ==
    /\ pc = "sched_attempt" /\ attempt >= max_attempts
    /\ result' = SchedulingResult(FALSE, <<>>, "Failed to schedule level", level_arg)
    /\ pc' = "sched_done"
    /\ UNCHANGED <<domain, variables, heap, input_cells, level_arg, max_attempts,
                   sorted_vars, attempt, sched_pos, scheduled_resources, iter_order>>
    /\ UNCHANGED <<solverVars, extVars>>

\* _schedule_variable(var) finds a triple: assign and book it
ScheduleOk ==
    /\ pc = "sched_var" /\ sched_pos <= Len(sorted_vars)
    /\ LET k == sorted_vars[sched_pos]
           v == variables[k]
       IN  /\ ~ScheduleRaises(v, heap, domain)
           /\ LET pick == _schedule_variable(v, heap, domain, scheduled_resources, iter_order)
              IN  /\ pick.ok
                  /\ domain' = DomainAfterAssign(domain, pick.time, pick.room,
                                                 pick.instructor)
                  /\ variables' = [variables EXCEPT
                         ![k] = assign(@, pick.time, pick.room, pick.instructor)]
                  /\ scheduled_resources' =
                         _mark_resource_used(
                             _mark_resource_used(scheduled_resources, "rooms", pick.room, pick.time),
                             "instructors", pick.instructor, pick.time)
    /\ sched_pos' = sched_pos + 1
    /\ UNCHANGED <<heap, pc, input_cells, level_arg, max_attempts, sorted_vars,
                   attempt, iter_order, result>>
    /\ UNCHANGED <<solverVars, extVars>>

\* _schedule_variable(var) finds none: the attempt is abandoned and every
\* Variable unassigned
ScheduleFail ==
    /\ pc = "sched_var" /\ sched_pos <= Len(sorted_vars)
    /\ LET v == variables[sorted_vars[sched_pos]]
       IN  /\ ~ScheduleRaises(v, heap, domain)
           /\ ~_schedule_variable(v, heap, domain, scheduled_resources, iter_order).ok
    /\ variables' = [k \in 1..Len(variables) |-> unassign(variables[k])]
    /\ attempt' = attempt + 1
    /\ pc' = "sched_attempt"
    /\ UNCHANGED <<domain, heap, input_cells, level_arg, max_attempts, sorted_vars,
                   sched_pos, scheduled_resources, iter_order, result>>
    /\ call_result' = AfterAttempt(FALSE, variables')
    /\ UNCHANGED <<solverVars, domain_at_call, last_call, levels_file, gen_result, arcs>>

\* a KeyError inside _schedule_variable reaches `except Exception`
ScheduleRaise ==
    /\ pc = "sched_var" /\ sched_pos <= Len(sorted_vars)
    /\ ScheduleRaises(variables[sorted_vars[sched_pos]], heap, domain)
    /\ result' = SchedulingResult(FALSE, <<>>, "Scheduling error", 0)
    /\ pc' = "sched_done"
    /\ UNCHANGED <<domain, variables, heap, input_cells, level_arg, max_attempts,
                   sorted_vars, attempt, sched_pos, scheduled_resources, iter_order>>
    /\ call_result' = AfterAttempt(FALSE, variables)
    /\ UNCHANGED <<solverVars, domain_at_call, last_call, levels_file, gen_result, arcs>>

\* every Variable of the attempt was scheduled: success
AttemptSuccess ==
    /\ pc = "sched_var" /\ sched_pos > Len(sorted_vars)
    /\ result' = SchedulingResult(TRUE, sorted_vars, "None", 0)
    /\ pc' = "sched_done"
    /\ UNCHANGED <<domain, variables, heap, input_cells, level_arg, max_attempts,
                   sorted_vars, attempt, sched_pos, scheduled_resources, iter_order>>
    /\ call_result' = AfterAttempt(TRUE, variables)
    /\ UNCHANGED <<solverVars, domain_at_call, last_call, levels_file, gen_result, arcs>>

(***************************************************************************)
(* Inputs                                                                  *)
(***************************************************************************)
RoomRows ==
    ("R101" :> <<"Lecture", 30>>) @@ ("R102" :> <<"Lecture", 50>>)
        @@ ("L201" :> <<"Lab", 30>>)

InstructorIds == {"I1", "I2"}

SlotLists == {<<S0900>>, <<S0900, S0800>>, <<S0900, S0930>>, <<S0900, S0930, S0800>>}

CourseIds == <<"CSC111", "CSC112", "CSC113", "CSC114">>

MaxSolutionsChoices == {0, 1, 2}

Lec30 == ResourceRequirements("Lecture", 30, FALSE, FALSE)

Lec40 == ResourceRequirements("Lecture", 40, FALSE, FALSE)

Lab30 == ResourceRequirements("Lab", 30, FALSE, FALSE)

\* the Variables a caller may pass: level, requirements, candidate sets
VarKinds == {"full1", "full2", "narrow1", "notimes1", "labroom2", "late2"}

KindLevel(kind) == IF kind \in {"full1", "narrow1", "notimes1"} THEN 1 ELSE 2

KindRequirements(kind) ==
    IF kind \in {"late2", "small2"} THEN Lec40
    ELSE IF kind = "labfixed2" THEN Lab30 ELSE Lec30

KindCell(kind, d) ==
    LET av == get_available_values(d, KindRequirements(kind))
    IN  CASE kind = "narrow1" -> Cell({d.time_slots[1]}, {"R101"}, av.instructors)
          [] kind = "notimes1" -> Cell({}, av.rooms, av.instructors)
          [] kind = "labroom2" -> Cell(av.times, {"L201"}, av.instructors)
          [] kind = "late2" -> Cell({d.time_slots[Len(d.time_slots)]}, av.rooms, av.instructors)
          [] kind = "small2" -> Cell(av.times, {"R101"}, av.instructors)
          [] kind = "labfixed2" -> Cell({d.time_slots[1]}, {"L201"}, {"I1"})
          [] OTHER -> av

\* no schedule_level call is in progress
SchedulerIdle ==
    /\ level_arg = 0
    /\ max_attempts = 0
    /\ sorted_vars = <<>>
    /\ attempt = 0
    /\ sched_pos = 0
    /\ scheduled_resources = _reset_resources
    /\ iter_order = [times |-> <<>>, rooms |-> <<>>, instructors |-> <<>>]
    /\ result = NoResult

\* no solve call is in progress
SolverIdle ==
    /\ max_solutions = 0
    /\ ctl = Ctl("idle", 0, FALSE)
    /\ stack = <<>>
    /\ solutions = <<>>
    /\ best_metrics = NoneMetrics
    /\ best_solution = <<>>
    /\ stats = [backtracks |-> 0, assignments |-> 0, solutions_found |-> 0,
                best_score |-> [num |-> 1, den |-> 0]]
    /\ timed_out = FALSE
    /\ run = 0
    /\ first_result = <<>>
    /\ recorded = <<>>
    /\ snapshots = <<>>
    /\ last_leaf = [visited |-> FALSE, ret |-> FALSE, nsol |-> 0, clears |-> FALSE]
    /\ timeout_seen = [seen |-> FALSE, solutions |-> <<>>]
    /\ post_ops = 0

NoCall == [op |-> "none", time_slot |-> NoneSlot, room_id |-> NoneId,
           instructor_id |-> NoneId, n |-> 0]

NoFile == [exists |-> FALSE, json_ok |-> FALSE, root_is_object |-> FALSE, data |-> <<>>]

NoGenResult == [returned |-> FALSE, success |-> FALSE, timetable |-> <<>>,
                error |-> [prefix |-> "None", detail |-> "None", courses |-> {},
                           levels |-> {}], scheduled |-> {}]

NoCallResult == [op |-> "none"]

\* no function is under test
TestIdle ==
    /\ arcs = <<>>
    /\ call_result = NoCallResult

\* no Domain call has been made and generate has not been called
ExtIdle ==
    /\ domain_at_call = domain
    /\ last_call = NoCall
    /\ levels_file = NoFile
    /\ gen_result = NoGenResult
    /\ TestIdle

\* the state when solve is called: a fresh Solver, all Variables unassigned
InitSolve(kindSets, maxChoices) ==
    \E sl \in SlotLists, n \in 0..MaxVars, m \in maxChoices :
      \E kinds \in [1..n -> kindSets] :
        LET d == LoadDomain(sl, RoomRows, InstructorIds)
        IN  /\ domain = d
            /\ variables = [k \in 1..n |->
                   Variable(CourseIds[k], KindLevel(kinds[k]), KindRequirements(kinds[k]), k)]
            /\ heap = [r \in Refs |-> IF r <= n THEN KindCell(kinds[r], d) ELSE NullCell]
            /\ input_cells = [k \in 1..n |-> KindCell(kinds[k], d)]
            /\ max_solutions = m
    /\ pc = "running"
    /\ ctl = Ctl("enter", 0, FALSE)
    /\ stack = <<>>
    /\ solutions = <<>>
    /\ best_metrics = NoneMetrics
    /\ best_solution = <<>>
    /\ stats = [backtracks |-> 0, assignments |-> 0, solutions_found |-> 0,
                best_score |-> [num |-> 1, den |-> 0]]
    /\ timed_out = FALSE
    /\ run = 1
    /\ first_result = <<>>
    /\ recorded = <<>>
    /\ snapshots = <<>>
    /\ last_leaf = [visited |-> FALSE, ret |-> FALSE, nsol |-> 0, clears |-> FALSE]
    /\ timeout_seen = [seen |-> FALSE, solutions |-> <<>>]
    /\ post_ops = 0
    /\ SchedulerIdle
    /\ ExtIdle

Init == InitSolve(VarKinds, MaxSolutionsChoices)

Search ==
    \/ EnterLeaf
    \/ EnterOrder
    \/ EnterRaise
    \/ TryValue
    \/ Exhausted
    \/ ReturnTrue
    \/ ReturnFalse
    \/ Finish

Next ==
    \/ Search
    \/ SolveAgain
    \/ PostAssign
    \/ PostUnassign
    \/ PostSetDomain
    \/ PostReduceDomain

\* solve with a timeout that is never reached, and the caller afterwards
Spec == Init /\ [][Next]_vars

InitTimeout == InitSolve(VarKinds, {1})

NextTimeout ==
    \/ Search
    \/ EnterTimeout
    \/ Tick

\* solve with a timeout that may be reached at any moment
SpecTimeout == InitTimeout /\ [][NextTimeout]_vars

\* Variables whose candidate rooms are chosen by the caller among the Domain's
\* rooms: "small2" needs 40 seats and is given R101 (30 seats)
RoomKinds == {"full1", "small2", "labroom2"}

InitRooms == InitSolve(RoomKinds, {1})

\* solve on caller-chosen candidate rooms
SpecRooms == InitRooms /\ [][Search]_vars

(***************************************************************************)
(* Inputs of schedule_level                                                *)
(***************************************************************************)
\* the Variables of one level: requirements and candidate sets
SchedKinds == {"full", "r101", "big", "lab", "onetime", "ghost"}

SchedRequirements(kind) ==
    IF kind = "big" THEN Lec40 ELSE IF kind = "lab" THEN Lab30 ELSE Lec30

SchedCell(kind, d) ==
    LET av == get_available_values(d, SchedRequirements(kind))
    IN  CASE kind = "r101" -> Cell(av.times, {"R101"}, {"I1"})
          [] kind = "onetime" -> Cell({d.time_slots[1]}, av.rooms, av.instructors)
          [] kind = "ghost" -> Cell(av.times, {"X999"}, av.instructors)
          [] OTHER -> av

MaxAttemptsChoices == {0, 1, 2}

IterationOrders(S) ==
    {f \in [1..Cardinality(S) -> S] : \A a, b \in 1..Cardinality(S) : a # b => f[a] # f[b]}

\* the state when schedule_level(1, variables, max_attempts) is called
InitSchedule ==
    /\ \E sl \in SlotLists, n \in 0..MaxVars, m \in MaxAttemptsChoices :
         \E kinds \in [1..n -> SchedKinds] :
           LET d == LoadDomain(sl, RoomRows, InstructorIds)
           IN  /\ domain = d
               /\ variables = [k \in 1..n |->
                      Variable(CourseIds[k], 1, SchedRequirements(kinds[k]), k)]
               /\ heap = [r \in Refs |-> IF r <= n THEN SchedCell(kinds[r], d) ELSE NullCell]
               /\ input_cells = [k \in 1..n |-> SchedCell(kinds[k], d)]
               /\ max_attempts = m
               /\ \E ot \in IterationOrders(SeqToSet(sl)), or \in IterationOrders(DOMAIN RoomRows),
                     oi \in IterationOrders(InstructorIds) :
                     iter_order = [times |-> ot, rooms |-> or, instructors |-> oi]
    /\ level_arg = 1
    /\ sorted_vars = <<>>
    /\ attempt = 0
    /\ sched_pos = 0
    /\ scheduled_resources = _reset_resources
    /\ result = NoResult
    /\ pc = "sched_call"
    /\ SolverIdle
    /\ ExtIdle

NextSchedule ==
    \/ SchedStart
    \/ AttemptBegin
    \/ AttemptsExhausted
    \/ ScheduleOk
    \/ ScheduleFail
    \/ ScheduleRaise
    \/ AttemptSuccess

\* one call of LevelScheduler.schedule_level
SpecSchedule == InitSchedule /\ [][NextSchedule]_vars

(***************************************************************************)
(* Properties of Solver.solve                                              *)
(***************************************************************************)
Returned == pc = "returned"

SolutionPairs ==
    {<<s, a, b>> \in (1..Len(solutions)) \X (1..MaxVars + 1) \X (1..MaxVars + 1) :
        a <= Len(solutions[s]) /\ b <= Len(solutions[s]) /\ a # b}

\* C1: in every solution solve returns, two distinct Variables whose assigned
\* times overlap differ in room, in instructor and in level
C1_SolutionsConflictFree ==
    Returned =>
        \A p \in SolutionPairs :
            LET a == solutions[p[1]][p[2]]
                b == solutions[p[1]][p[3]]
            IN  overlaps(a._assigned_time, b._assigned_time) =>
                    /\ a._assigned_room # b._assigned_room
                    /\ a._assigned_instructor # b._assigned_instructor
                    /\ a.level # b.level

\* a returned solution holds two Variables on overlapping, different slots
C1_Witness ==
    /\ Returned
    /\ \E p \in SolutionPairs :
          LET a == solutions[p[1]][p[2]]
              b == solutions[p[1]][p[3]]
          IN  /\ overlaps(a._assigned_time, b._assigned_time)
              /\ a._assigned_time # b._assigned_time

\* some complete assignment drawn from the given candidate sets has no hard
\* violation
RECURSIVE Feasible(_, _, _)
Feasible(vs, cells, k) ==
    IF k > Len(vs)
    THEN \A n \in 1..Len(check_assignment(vs, domain)) :
            check_assignment(vs, domain)[n].severity # 10
    ELSE \E tr \in Triples(cells[k]) :
            Feasible([vs EXCEPT ![k] = assign(@, tr[1], tr[2], tr[3])], cells, k + 1)

InputUnassigned == [k \in 1..Len(variables) |-> unassign(variables[k])]

FullInputs ==
    \A k \in 1..Len(variables) :
        input_cells[k] = get_available_values(domain, variables[k].requirements)

\* C2: a fresh Solver, max_solutions = 1, no timeout, candidate sets equal to
\* get_available_values: solve returns exactly one solution, fully assigned, if a
\* complete assignment without hard violation exists, and an empty list if not
C2_CompleteSearch ==
    (pc # "running" /\ run = 1 /\ max_solutions = 1 /\ FullInputs) =>
        /\ Returned
        /\ IF Feasible(InputUnassigned, input_cells, 1)
           THEN /\ Len(solutions) = 1
                /\ \A k \in 1..Len(solutions[1]) : is_assigned(solutions[1][k])
           ELSE solutions = <<>>

\* C3: every assigned value of a returned solution is a member of the candidate
\* set its Variable held when solve was called
C3_AssignmentsFromInputSets ==
    Returned =>
        \A s \in 1..Len(solutions) : \A k \in 1..Len(solutions[s]) :
            /\ solutions[s][k]._assigned_time \in input_cells[k].times
            /\ solutions[s][k]._assigned_room \in input_cells[k].rooms
            /\ solutions[s][k]._assigned_instructor \in input_cells[k].instructors

\* C4: at a complete assignment backtrack returns true if and only if the
\* collected solutions have reached max_solutions and the score clears the
\* optimiser's bar
C4_LeafReturn ==
    last_leaf.visited =>
        (last_leaf.ret <=> (last_leaf.nsol >= max_solutions /\ last_leaf.clears))

\* C5: once a frame has seen the timeout exceeded, nothing more is recorded, no
\* frame returns true, and solve returns the solutions recorded before, with
\* every working Variable unassigned
C5_TimeoutUnwinds ==
    timeout_seen.seen =>
        /\ solutions = timeout_seen.solutions
        /\ ~(ctl.op = "ret" /\ ctl.value)
        /\ Returned => \A k \in 1..Len(variables) : ~is_assigned(variables[k])

\* solve has returned after a timeout that struck below the first frame, after
\* values had been tried and undone
C5_Witness ==
    /\ Returned
    /\ timeout_seen.seen
    /\ Len(variables) >= 2
    /\ stats.assignments >= 2
    /\ stats.backtracks >= 2

\* C6: a second solve with identical inputs, on the Solver that completed the
\* first one, returns the same list of assignments
C6_Reproducible ==
    (Returned /\ run = 2) => Assignments(solutions) = first_result

\* C7: a recorded solution keeps the content it had when it was recorded,
\* whatever happens to the working Variables afterwards
C7_RecordedUnaffected ==
    \A n \in 1..Len(recorded) : DerefAll(recorded[n], heap) = snapshots[n]

\* after solve the caller has changed a working Variable, which now differs from
\* its recorded copy in assignment or in candidate sets
C7_Witness ==
    /\ Returned
    /\ post_ops >= 1
    /\ recorded # <<>>
    /\ \E k \in 1..Len(variables) :
          /\ Deref(variables[k], heap) # Deref(recorded[1][k], heap)
          /\ Deref(recorded[1][k], heap)._possible_times # {}

\* C8: a Variable whose domain_size() is 0 when solve is called, in any
\* position, makes solve return no solution
C8_EmptyDomainFails ==
    (Returned /\ run = 1
        /\ \E k \in 1..Len(variables) :
              Cardinality(input_cells[k].times) * Cardinality(input_cells[k].rooms)
                  * Cardinality(input_cells[k].instructors) = 0)
      => solutions = <<>>

(***************************************************************************)
(* Properties of LevelScheduler.schedule_level                             *)
(***************************************************************************)
ScheduleSucceeded == pc = "sched_done" /\ result.success

\* C9: a successful result lists every input Variable exactly once, all of them
\* assigned, and no two of them with overlapping times share a room or an
\* instructor
C9_ScheduleConflictFree ==
    ScheduleSucceeded =>
        /\ Len(result.variables) = Len(variables)
        /\ SeqToSet(result.variables) = 1..Len(variables)
        /\ \A k \in 1..Len(variables) : is_assigned(variables[k])
        /\ \A a, b \in 1..Len(variables) :
              a # b => ~conflicts_with(variables[a], variables[b])

\* C10: in a successful result no two Variables of the level hold overlapping
\* assigned times
C10_LevelTimesDisjoint ==
    ScheduleSucceeded =>
        \A a, b \in 1..Len(variables) :
            (a # b /\ variables[a].level = variables[b].level)
                => ~overlaps(variables[a]._assigned_time, variables[b]._assigned_time)

(***************************************************************************)
(* LevelParser (level_parser.py) and TimetableGenerator                    *)
(* (timetable_generator.py).  The levels file is a JSON object: a list of  *)
(* (key, value) pairs in file order.  An item of a course list is a string,*)
(* a list (an elective group) or a value of any other type.                *)
(***************************************************************************)
MaxItems == 2

StrItem(id) == [kind |-> "str", id |-> id, items |-> <<>>]

ListItem(items) == [kind |-> "list", id |-> "None", items |-> items]

OtherItem == [kind |-> "other", id |-> "None", items |-> <<>>]

LevelKey(prefix, suffix) == [prefix |-> prefix, suffix |-> suffix]

\* re.match(r'^[A-Z]{2,3}\d{3}$', course_id), on the ids used here
_is_valid_course_id(course_id) == course_id \in {"CSC111", "CSC112", "CSC113", "CSC999"}

\* the rows of the courses table
CoursesTable == {"CSC111", "CSC112", "CSC113"}

\* int(s) for the key suffixes used here; ValueError otherwise
IntOf == ("1" :> 1) @@ ("2" :> 2)

ErrorText(prefix, detail, courses, levels) ==
    [prefix |-> prefix, detail |-> detail, courses |-> courses, levels |-> levels]

Raised(detail, courses, levels) ==
    [raised |-> TRUE, detail |-> detail, courses |-> courses, levels |-> levels,
     value |-> <<>>]

Value(v) == [raised |-> FALSE, detail |-> "None", courses |-> {}, levels |-> {},
             value |-> v]

\* _parse_course_list(courses): the parsed list, or the exception of the first
\* offending item.  A group's parsed courses replace its items.
RECURSIVE _parse_course_list(_, _)
_parse_course_list(courses, k) ==
    IF k > Len(courses) THEN Value(<<>>)
    ELSE LET item == courses[k]
             here ==
               CASE item.kind = "str" ->
                      IF _is_valid_course_id(item.id) THEN Value(item)
                      ELSE Raised("InvalidFormatError: Invalid course ID format",
                                  {item.id}, {})
                 [] item.kind = "list" ->
                      IF Len(item.items) < 2
                      THEN Raised("ConstraintViolationError: elective_group_size", {}, {})
                      ELSE LET sub == _parse_course_list(item.items, 1)
                           IN  IF sub.raised THEN sub ELSE Value(ListItem(sub.value))
                 [] OTHER -> Raised("InvalidFormatError: Invalid course entry type", {}, {})
         IN  IF here.raised THEN here
             ELSE LET rest == _parse_course_list(courses, k + 1)
                  IN  IF rest.raised THEN rest ELSE Value(<<here.value>> \o rest.value)

RECURSIVE ParseLevels(_, _)
ParseLevels(data, k) ==
    IF k > Len(data) THEN Value(<<>>)
    ELSE LET one == _parse_course_list(data[k].value, 1)
         IN  IF one.raised THEN one
             ELSE LET rest == ParseLevels(data, k + 1)
                  IN  IF rest.raised THEN rest
                      ELSE Value(<<[key |-> data[k].key, courses |-> one.value]>>
                                    \o rest.value)

\* the first level whose key or value has the wrong form, 0 if none
FirstBadLevel(data) ==
    IF \E k \in 1..Len(data) : data[k].key.prefix # "level_" \/ ~data[k].is_list
    THEN CHOOSE k \in 1..Len(data) :
           /\ data[k].key.prefix # "level_" \/ ~data[k].is_list
           /\ \A j \in 1..(k - 1) : data[j].key.prefix = "level_" /\ data[j].is_list
    ELSE 0

\* LevelParser.load_levels: parser.levels, or the exception raised
load_levels(file) ==
    IF ~file.exists THEN Raised("InvalidFormatError: Levels file not found", {}, {})
    ELSE IF ~file.json_ok THEN Raised("InvalidFormatError: Invalid JSON format", {}, {})
    ELSE IF ~file.root_is_object
    THEN Raised("InvalidFormatError: Root element must be an object", {}, {})
    ELSE LET bad == FirstBadLevel(file.data)
         IN  IF bad # 0
             THEN IF file.data[bad].key.prefix # "level_"
                  THEN Raised("InvalidFormatError: Invalid level key", {},
                              {file.data[bad].key})
                  ELSE Raised("InvalidFormatError: must contain a list of courses", {},
                              {file.data[bad].key})
             ELSE ParseLevels(file.data, 1)

\* LevelParser.validate(raise_errors=False): once the connection is open the
\* first statement evaluates self._flatten_courses, a method LevelParser does
\* not define: AttributeError, which `except sqlite3.Error` does not catch
validate(levels) ==
    Raised("AttributeError: 'LevelParser' object has no attribute '_flatten_courses'",
           {}, {})

\* _create_variables(level, courses): _get_course_requirements uses the name
\* sqlite3, which timetable_generator.py never imports: NameError on the first
\* course; an empty course list gives an empty variable list
_create_variables(level_num, courses) ==
    IF courses = <<>> THEN Value(<<>>)
    ELSE Raised("NameError: name 'sqlite3' is not defined", {}, {})

\* schedule_level(level, [], max_attempts): nothing to schedule
ScheduleNoVariables(level_num, attempts) ==
    IF attempts > 0 THEN SchedulingResult(TRUE, <<>>, "None", 0)
    ELSE SchedulingResult(FALSE, <<>>, "Failed to schedule level", level_num)

GeneratorResult(success, timetable, error, scheduled) ==
    [returned |-> TRUE, success |-> success, timetable |-> timetable, error |-> error,
     scheduled |-> scheduled]

GenerationFailed(r, scheduled) ==
    GeneratorResult(FALSE, <<>>,
                    ErrorText("Generation failed", r.detail, r.courses, r.levels), scheduled)

\* the loop `for level, courses in self.level_parser.levels.items()`
RECURSIVE GenerateLevels(_, _, _, _, _)
GenerateLevels(levels, k, attempts, timetable, scheduled) ==
    IF k > Len(levels) THEN GeneratorResult(TRUE, timetable, ErrorText("None", "None", {}, {}),
                                            scheduled)
    ELSE LET key == levels[k].key
         IN  IF key.suffix \notin DOMAIN IntOf
             THEN GenerationFailed(Raised("ValueError: invalid literal for int()", {}, {}),
                                   scheduled)
             ELSE LET level_num == IntOf[key.suffix]
                      vs == _create_variables(level_num, levels[k].courses)
                  IN  IF vs.raised THEN GenerationFailed(vs, scheduled)
                      ELSE LET res == ScheduleNoVariables(level_num, attempts)
                           IN  IF ~res.success
                               THEN GeneratorResult(FALSE, <<>>,
                                        ErrorText("Failed to schedule level", res.error,
                                                  {}, {key}),
                                        scheduled \cup {key})
                               ELSE GenerateLevels(levels, k + 1, attempts,
                                        Append(timetable, [level |-> level_num,
                                                           variables |-> res.variables]),
                                        scheduled \cup {key})

\* TimetableGenerator.generate(max_attempts): every exception ends in
\* `except Exception` and is returned as a failed GeneratorResult
generate(file, attempts) ==
    LET loaded == load_levels(file)
    IN  IF loaded.raised THEN GenerationFailed(loaded, {})
        ELSE LET validation == validate(loaded.value)
             IN  IF validation.raised THEN GenerationFailed(validation, {})
                 ELSE IF validation.value # <<>>
                 THEN GeneratorResult(FALSE, <<>>,
                          ErrorText("Level validation failed", "validation_errors", {}, {}), {})
                 ELSE GenerateLevels(loaded.value, 1, attempts, <<>>, {})

\* generate() is called and returns
Generate ==
    /\ pc = "gen_call"
    /\ gen_result' = generate(levels_file, max_attempts)
    /\ pc' = "gen_done"
    /\ UNCHANGED <<domain, variables, heap, input_cells, domain_at_call, last_call,
                   levels_file>>
    /\ UNCHANGED <<solverVars, schedVars, arcs, call_result>>

(***************************************************************************)
(* Inputs of generate                                                      *)
(***************************************************************************)
CatalogueItems ==
    {StrItem("CSC111"), StrItem("CSC112"), StrItem("CSC999"), StrItem("csc1"),
     ListItem(<<StrItem("CSC112")>>), ListItem(<<StrItem("CSC112"), StrItem("CSC113")>>),
     OtherItem}

ItemLists == UNION {[1..n -> CatalogueItems] : n \in 0..MaxItems}

LevelKeys == <<LevelKey("level_", "1"), LevelKey("level_", "2")>>

\* well-formed files: levels level_1 .. level_n, each a list of items
Catalogues ==
    UNION {[1..n -> ItemLists] : n \in 0..Len(LevelKeys)}

LevelsFile(json_ok, root_is_object, data) ==
    [exists |-> TRUE, json_ok |-> json_ok, root_is_object |-> root_is_object, data |-> data]

LevelEntry(key, is_list, value) == [key |-> key, is_list |-> is_list, value |-> value]

\* files that load_levels rejects for their form
MalformedFiles ==
    {[exists |-> FALSE, json_ok |-> FALSE, root_is_object |-> FALSE, data |-> <<>>],
     LevelsFile(FALSE, FALSE, <<>>),
     LevelsFile(TRUE, FALSE, <<>>),
     LevelsFile(TRUE, TRUE, <<LevelEntry(LevelKey("lvl_", "1"), TRUE, <<StrItem("CSC111")>>)>>),
     LevelsFile(TRUE, TRUE, <<LevelEntry(LevelKey("level_", "1"), FALSE, <<>>)>>),
     LevelsFile(TRUE, TRUE, <<LevelEntry(LevelKey("level_", "x"), TRUE, <<>>)>>)}

\* the state when generate(max_attempts) is called on a constructed generator
InitGenerate ==
    /\ \/ \E c \in Catalogues :
            levels_file = LevelsFile(TRUE, TRUE,
                [k \in 1..Len(c) |-> LevelEntry(LevelKeys[k], TRUE, c[k])])
       \/ levels_file \in MalformedFiles
    /\ domain = LoadDomain(<<S0900>>, RoomRows, InstructorIds)
    /\ variables = <<>>
    /\ heap = [r \in Refs |-> NullCell]
    /\ input_cells = <<>>
    /\ pc = "gen_call"
    /\ domain_at_call = domain
    /\ last_call = NoCall
    /\ gen_result = NoGenResult
    /\ TestIdle
    /\ SolverIdle
    /\ level_arg = 0
    /\ max_attempts \in MaxAttemptsChoices
    /\ sorted_vars = <<>>
    /\ attempt = 0
    /\ sched_pos = 0
    /\ scheduled_resources = _reset_resources
    /\ iter_order = [times |-> <<>>, rooms |-> <<>>, instructors |-> <<>>]
    /\ result = NoResult

NextGenerate == Generate

\* one call of TimetableGenerator.generate
SpecGenerate == InitGenerate /\ [][NextGenerate]_vars

(***************************************************************************)
(* Room type and capacity of the assigned room                             *)
(***************************************************************************)
RoomFits(v, d) ==
    /\ v._assigned_room \in DOMAIN d.rooms
    /\ d.rooms[v._assigned_room].room_type = v.requirements.room_type
    /\ d.rooms[v._assigned_room].capacity >= v.requirements.min_capacity

\* C11: every assigned Variable of a solution solve returns, and of a successful
\* schedule_level result, sits in a room whose Domain type equals its required
\* room_type and whose capacity is at least its min_capacity
C11_RoomTypeAndCapacity ==
    /\ Returned =>
          \A s \in 1..Len(solutions) : \A k \in 1..Len(solutions[s]) :
              is_assigned(solutions[s][k]) => RoomFits(solutions[s][k], domain)
    /\ ScheduleSucceeded =>
          \A k \in 1..Len(variables) :
              is_assigned(variables[k]) => RoomFits(variables[k], domain)

(***************************************************************************)
(* Failure of schedule_level                                               *)
(***************************************************************************)
ScheduleFailed == pc = "sched_done" /\ ~result.success

\* C14: whenever schedule_level returns success=false, after the attempts are
\* used up or through its exception path, every input Variable is unassigned
\* and the error names the level
C14_FailureUnassignsAndNamesLevel ==
    ScheduleFailed =>
        /\ \A k \in 1..Len(variables) : ~is_assigned(variables[k])
        /\ result.level = level_arg


(***************************************************************************)
(* Calls on the Domain: update_availability, restore_availability and      *)
(* ConstraintManager.propagate_constraints, in any order                   *)
(***************************************************************************)
MaxDomainCalls == 3

\* NoOverlapConstraint.propagate(variable, domain): the Domain afterwards
NoOverlapConstraint_propagate(v, d) ==
    IF ~is_assigned(v) THEN d
    ELSE update_availability(d, v._assigned_time, v._assigned_room, v._assigned_instructor)

\* RoomTypeConstraint.propagate(variable, domain): the candidate sets afterwards
\* and the value returned
RoomTypeConstraint_propagate(v, h, d) ==
    LET rooms == h[v.dom].rooms
        compatible_rooms ==
            {r \in rooms : d.rooms[r].room_type = v.requirements.room_type}
    IN  [heap |-> reduce_domain(v, h, {}, rooms \ compatible_rooms, {}),
         ret |-> compatible_rooms # {}]

\* ConstraintManager.propagate_constraints(variable, domain): the hard
\* constraints in order, LevelConstraint.propagate being `return True`
propagate_constraints(v, h, d) ==
    LET rt == RoomTypeConstraint_propagate(v, h, d)
    IN  [domain |-> NoOverlapConstraint_propagate(v, d), heap |-> rt.heap, ret |-> rt.ret]

\* a slot that is none of the Domain's time_slots
ForeignSlot == TimeSlot("Tue", 540, 600)

SlotArgs == SeqToSet(domain.time_slots) \cup {ForeignSlot}

RoomArgs == {"R101", "X999", NoneId}

InstructorArgs == {"I1", "X999", NoneId}

Call(op, time_slot, room_id, instructor_id) ==
    [op |-> op, time_slot |-> time_slot, room_id |-> room_id,
     instructor_id |-> instructor_id, n |-> last_call.n + 1]

UpdateAvailability ==
    /\ pc = "domain" /\ last_call.n < MaxDomainCalls
    /\ \E t \in SlotArgs, r \in RoomArgs, i \in InstructorArgs :
          /\ domain' = update_availability(domain, t, r, i)
          /\ last_call' = Call("update", t, r, i)
    /\ UNCHANGED <<variables, heap, pc, input_cells, domain_at_call, levels_file,
                   gen_result>>
    /\ UNCHANGED <<solverVars, schedVars, arcs, call_result>>

RestoreAvailability ==
    /\ pc = "domain" /\ last_call.n < MaxDomainCalls
    /\ \E t \in SlotArgs, r \in RoomArgs, i \in InstructorArgs :
          /\ domain' = restore_availability(domain, t, r, i)
          /\ last_call' = Call("restore", t, r, i)
    /\ UNCHANGED <<variables, heap, pc, input_cells, domain_at_call, levels_file,
                   gen_result>>
    /\ UNCHANGED <<solverVars, schedVars, arcs, call_result>>

\* propagate_constraints(variables[0], domain)
PropagateConstraints ==
    /\ pc = "domain" /\ last_call.n < MaxDomainCalls
    /\ Len(variables) >= 1
    /\ heap[variables[1].dom].rooms \subseteq DOMAIN domain.rooms
    /\ LET v == variables[1]
           after == propagate_constraints(v, heap, domain)
       IN  /\ domain' = after.domain
           /\ heap' = after.heap
           /\ last_call' = Call("propagate", v._assigned_time, v._assigned_room,
                                v._assigned_instructor)
           /\ call_result' = [op |-> "propagate_constraints", ret |-> after.ret,
                              domain_before |-> domain]
    /\ UNCHANGED <<variables, pc, input_cells, domain_at_call, levels_file, gen_result>>
    /\ UNCHANGED <<solverVars, schedVars, arcs>>

\* a loaded Domain and one Variable, assigned or not
InitDomain ==
    /\ \E sl \in SlotLists :
         LET d == LoadDomain(sl, RoomRows, InstructorIds)
             v == Variable(CourseIds[1], 1, Lec30, 1)
             av == get_available_values(d, Lec30)
         IN  /\ domain = d
             /\ \E c \in {av, Cell(av.times, {"L201"}, av.instructors)} :
                   /\ heap = [r \in Refs |-> IF r = 1 THEN c ELSE NullCell]
                   /\ input_cells = <<c>>
             /\ \/ variables = <<v>>
                \/ \E t \in SeqToSet(sl), r \in {"R101", "R102"} :
                      variables = <<assign(v, t, r, "I1")>>
    /\ pc = "domain"
    /\ ExtIdle
    /\ SolverIdle
    /\ SchedulerIdle

NextDomain ==
    \/ UpdateAvailability
    \/ RestoreAvailability
    \/ PropagateConstraints

SpecDomain == InitDomain /\ [][NextDomain]_vars

\* C15: after update_availability(slot, room, instructor) with a known room and
\* a known instructor, and after propagate_constraints on a Variable assigned
\* to them, slot is absent from the room's and from the instructor's
\* available_times
C15_UpdateRemovesSlot ==
    (/\ last_call.op \in {"update", "propagate"}
     /\ last_call.room_id \in DOMAIN domain.rooms
     /\ last_call.instructor_id \in DOMAIN domain.instructors) =>
        /\ last_call.time_slot
              \notin SeqToSet(domain.rooms[last_call.room_id].available_times)
        /\ last_call.time_slot
              \notin SeqToSet(domain.instructors[last_call.instructor_id].available_times)

\* C17: after any sequence of update_availability and restore_availability
\* calls every room's and every instructor's available_times is a subset of the
\* Domain's time_slots
C17_AvailableWithinTimeSlots ==
    /\ \A r \in DOMAIN domain.rooms :
          SeqToSet(domain.rooms[r].available_times) \subseteq SeqToSet(domain.time_slots)
    /\ \A i \in DOMAIN domain.instructors :
          SeqToSet(domain.instructors[i].available_times)
              \subseteq SeqToSet(domain.time_slots)


(***************************************************************************)
(* The Domain across solve and schedule_level                              *)
(***************************************************************************)
InitFrame == InitSolve(VarKinds, {1}) \/ InitSchedule

NextFrame == Search \/ NextSchedule

\* one call of solve or one call of schedule_level
SpecFrame == InitFrame /\ [][NextFrame]_vars

AvailableTimes(d) ==
    [rooms |-> [r \in DOMAIN d.rooms |-> d.rooms[r].available_times],
     instructors |-> [i \in DOMAIN d.instructors |-> d.instructors[i].available_times]]

\* C16: when solve or schedule_level returns, every room's and every
\* instructor's available_times has the content it had before the call
C16_DomainBookingsUnchanged ==
    (Returned \/ pc = "sched_done") =>
        AvailableTimes(domain) = AvailableTimes(domain_at_call)

\* solve has returned a solution found after backtracking
C16_Witness ==
    /\ Returned
    /\ solutions # <<>>
    /\ stats.backtracks >= 1
    /\ Len(variables) >= 2


(***************************************************************************)
(* generate on an invalid level catalogue                                  *)
(***************************************************************************)
\* the course ids written in a list of items, groups included
RECURSIVE CoursesIn(_)
CoursesIn(items) ==
    IF items = <<>> THEN {}
    ELSE LET item == Head(items)
         IN  (IF item.kind = "str" THEN {item.id}
              ELSE IF item.kind = "list" THEN CoursesIn(item.items) ELSE {})
                 \cup CoursesIn(Tail(items))

RECURSIVE HasSmallGroup(_)
HasSmallGroup(items) ==
    IF items = <<>> THEN FALSE
    ELSE \/ Head(items).kind = "list"
            /\ (Len(Head(items).items) < 2 \/ HasSmallGroup(Head(items).items))
         \/ HasSmallGroup(Tail(items))

\* the courses written in two levels of the file
DuplicatedCourses(file) ==
    UNION {CoursesIn(file.data[a].value) \cap CoursesIn(file.data[b].value) :
              <<a, b>> \in {p \in (1..Len(file.data)) \X (1..Len(file.data)) : p[1] # p[2]}}

AbsentCourses(file) ==
    UNION {CoursesIn(file.data[k].value) : k \in 1..Len(file.data)} \ CoursesTable

SmallGroups(file) == \E k \in 1..Len(file.data) : HasSmallGroup(file.data[k].value)

InvalidCatalogue(file) ==
    \/ DuplicatedCourses(file) # {}
    \/ SmallGroups(file)
    \/ AbsentCourses(file) # {}

\* C18: on a catalogue with a course in two levels, an elective group of fewer
\* than 2 entries or a course absent from the courses table, generate returns
\* success=false with an error value, schedules no level, and for a duplicate
\* (the catalogue's only defect) the error names the duplicated course
C18_CatalogueErrorsReturned ==
    (pc = "gen_done" /\ InvalidCatalogue(levels_file)) =>
        /\ gen_result.returned
        /\ ~gen_result.success
        /\ gen_result.error.prefix # "None"
        /\ gen_result.scheduled = {}
        /\ (/\ DuplicatedCourses(levels_file) # {}
            /\ ~SmallGroups(levels_file)
            /\ AbsentCourses(levels_file) = {}
            /\ load_levels(levels_file).raised = FALSE)
              => DuplicatedCourses(levels_file) \subseteq gen_result.error.courses


(***************************************************************************)
(* Solver statistics                                                       *)
(***************************************************************************)
\* C19: when solve returns, stats.solutions_found is the number of solutions
\* recorded during the call, and stats.best_score is the total score of the
\* best recorded solution whenever at least one was recorded
C19_StatsTrackSearch ==
    Returned =>
        /\ stats.solutions_found = Len(solutions)
        /\ solutions # <<>> =>
              /\ stats.best_score.den # 0
              /\ stats.best_score.num * best_metrics.total_score.den
                    = best_metrics.total_score.num * stats.best_score.den


(***************************************************************************)
(* Forward checking against the partial assignment                         *)
(***************************************************************************)
\* the triple tr of the future Variable at position k, tried together with the
\* first n (assigned) Variables, yields no violation of severity 10
NoHardViolationWith(n, k, tr) ==
    LET viol == check_assignment(
                    Append(SubSeq(variables, 1, n),
                           assign(variables[k], tr[1], tr[2], tr[3])), domain)
    IN  \A m \in 1..Len(viol) : viol[m].severity < 10

\* C20: backtrack(index + 1) is entered only after _forward_check returned
\* true; then every future Variable has a triple in its current candidate
\* sets with no hard violation against the Variables already assigned
C20_ForwardCheckSound ==
    (pc = "running" /\ ctl.op = "enter" /\ ctl.index >= 1) =>
        \A k \in (ctl.index + 1)..Len(variables) :
            \E tr \in Triples(heap[variables[k].dom]) :
                NoHardViolationWith(ctl.index, k, tr)


(***************************************************************************)
(* _forward_check as a probe                                               *)
(***************************************************************************)
InitProbe == InitSolve(VarKinds, {1})

NextProbe == Search \/ ForwardCheck

\* the search, observed at each return of _forward_check
SpecProbe == InitProbe /\ [][NextProbe]_vars

RECURSIVE InOrder(_, _)
InOrder(order, S) ==
    IF order = <<>> THEN <<>>
    ELSE (IF Head(order) \in S THEN <<Head(order)>> ELSE <<>>) \o InOrder(Tail(order), S)

\* some triple of var2 goes with (t1, r1, i1): check_assignment([var1, var2]) is empty
Compatible(v1, v2, c2, d, t1, r1, i1) ==
    \E tr \in Triples(c2) :
        \E pair \in {<<assign(v1, t1, r1, i1), assign(v2, tr[1], tr[2], tr[3])>>} :
            check_assignment(pair, d) = <<>>

\* what `if not compatible` does to the sets of var1 for the value (t1, r1, i1)
RemoveIncompatible_keep(cur, compatible, t1, r1, i1) ==
    IF compatible THEN cur
    ELSE [times |-> cur.times, rooms |-> cur.rooms,
          instructors |-> cur.instructors, revised |-> TRUE]

RemoveIncompatible(cur, compatible, t1, r1, i1) ==
    IF compatible THEN cur
    ELSE [times |-> cur.times \ {t1}, rooms |-> cur.rooms \ {r1},
          instructors |-> cur.instructors \ {i1}, revised |-> TRUE]

\* `for i1 in instructors1.copy()`; each intermediate value is bound through a
\* singleton set, so that it is computed once
RECURSIVE ReviseInstructors(_, _, _, _, _, _, _, _)
ReviseInstructors(cur, v1, v2, c2, d, t1, r1, is) ==
    IF is = <<>> THEN cur
    ELSE CHOOSE out \in
             {ReviseInstructors(cur2, v1, v2, c2, d, t1, r1, Tail(is)) :
                 cur2 \in {RemoveIncompatible(cur,
                              Compatible(v1, v2, c2, d, t1, r1, Head(is)),
                              t1, r1, Head(is))}} : TRUE

\* `for r1 in rooms1.copy()`
RECURSIVE ReviseRooms(_, _, _, _, _, _, _, _)
ReviseRooms(cur, v1, v2, c2, d, ord, t1, rs) ==
    IF rs = <<>> THEN cur
    ELSE CHOOSE out \in
             {ReviseRooms(cur2, v1, v2, c2, d, ord, t1, Tail(rs)) :
                 cur2 \in {ReviseInstructors(cur, v1, v2, c2, d, t1, Head(rs),
                                             InOrder(ord.instructors, cur.instructors))}} : TRUE

\* `for t1 in times1.copy()`
RECURSIVE ReviseTimes(_, _, _, _, _, _, _)
ReviseTimes(cur, v1, v2, c2, d, ord, ts) ==
    IF ts = <<>> THEN cur
    ELSE CHOOSE out \in
             {ReviseTimes(cur2, v1, v2, c2, d, ord, Tail(ts)) :
                 cur2 \in {ReviseRooms(cur, v1, v2, c2, d, ord, Head(ts),
                                       InOrder(ord.rooms, cur.rooms))}} : TRUE

\* Solver._revise(var1, var2): the new sets of var1 and the value returned
_revise(v1, v2, h, d, ord) ==
    LET c1 == h[v1.dom]
    IN  ReviseTimes([times |-> c1.times, rooms |-> c1.rooms,
                     instructors |-> c1.instructors, revised |-> FALSE],
                    v1, v2, h[v2.dom], d, ord, InOrder(ord.times, c1.times))

\* arcs = [(i, j) for i in range(n) for j in range(n) if i != j]
AllArcs(n) ==
    FlattenSeq([i \in 1..n |->
        FlattenSeq([j \in 1..n |-> IF i # j THEN <<<<i, j>>>> ELSE <<>>])])

\* the arcs (k, i) appended after a revision of i against j
NeighbourArcs(n, i, j) ==
    FlattenSeq([k \in 1..n |-> IF k # i /\ k # j THEN <<<<k, i>>>> ELSE <<>>])

AcResult(value, revisions) == [op |-> "ac3", value |-> value, revisions |-> revisions]

\* one pass of `while arcs`: pop an arc and revise it
Ac3Revise ==
    /\ pc = "ac3" /\ arcs # <<>>
    /\ \E rv \in {_revise(variables[Head(arcs)[1]], variables[Head(arcs)[2]], heap,
                          domain, iter_order)} :
       LET i == Head(arcs)[1]
           j == Head(arcs)[2]
           h2 == [heap EXCEPT ![variables[i].dom] =
                      Cell(rv.times, rv.rooms, rv.instructors)]
           ran == Triples(heap[variables[i].dom]) # {}
       IN  /\ heap' = h2
           /\ variables' = IF ran
                           THEN [variables EXCEPT ![i] = unassign(@), ![j] = unassign(@)]
                           ELSE variables
           /\ IF rv.revised /\ domain_size(variables[i], h2) = 0
              THEN /\ pc' = "ac3_done"
                   /\ arcs' = Tail(arcs)
                   /\ call_result' = AcResult(FALSE, call_result.revisions + 1)
              ELSE /\ pc' = pc
                   /\ arcs' = IF rv.revised
                              THEN Tail(arcs) \o NeighbourArcs(Len(variables), i, j)
                              ELSE Tail(arcs)
                   /\ call_result' = IF rv.revised
                                     THEN AcResult(FALSE, call_result.revisions + 1)
                                     ELSE call_result
    /\ UNCHANGED <<domain, input_cells, iter_order, domain_at_call, last_call,
                   levels_file, gen_result>>
    /\ UNCHANGED <<solverVars, level_arg, max_attempts, sorted_vars, attempt, sched_pos,
                   scheduled_resources, result>>

\* `while arcs` ends: return True
Ac3Return ==
    /\ pc = "ac3" /\ arcs = <<>>
    /\ pc' = "ac3_done"
    /\ call_result' = AcResult(TRUE, call_result.revisions)
    /\ UNCHANGED <<domain, variables, heap, input_cells, arcs, iter_order, domain_at_call,
                   last_call, levels_file, gen_result>>
    /\ UNCHANGED <<solverVars, level_arg, max_attempts, sorted_vars, attempt, sched_pos,
                   scheduled_resources, result>>

Ac3Kinds == {"full1", "full2", "narrow1", "labfixed2"}

\* the state when ac3(variables) is called: all Variables unassigned
InitAc3 ==
    /\ \E sl \in SlotLists, n \in 0..MaxVars :
         \E kinds \in [1..n -> Ac3Kinds] :
           LET d == LoadDomain(sl, RoomRows, InstructorIds)
           IN  /\ domain = d
               /\ variables = [k \in 1..n |->
                      Variable(CourseIds[k], KindLevel(kinds[k]), KindRequirements(kinds[k]), k)]
               /\ heap = [r \in Refs |-> IF r <= n THEN KindCell(kinds[r], d) ELSE NullCell]
               /\ input_cells = [k \in 1..n |-> KindCell(kinds[k], d)]
               /\ arcs = AllArcs(n)
               /\ \E ot \in IterationOrders(SeqToSet(sl)),
                     or \in IterationOrders(UNION {KindCell(kinds[k], d).rooms : k \in 1..n}),
                     oi \in IterationOrders(InstructorIds) :
                     iter_order = [times |-> ot, rooms |-> or, instructors |-> oi]
    /\ pc = "ac3"
    /\ call_result = AcResult(FALSE, 0)
    /\ domain_at_call = domain
    /\ last_call = NoCall
    /\ levels_file = NoFile
    /\ gen_result = NoGenResult
    /\ SolverIdle
    /\ level_arg = 0
    /\ max_attempts = 0
    /\ sorted_vars = <<>>
    /\ attempt = 0
    /\ sched_pos = 0
    /\ scheduled_resources = _reset_resources
    /\ result = NoResult

NextAc3 == Ac3Revise \/ Ac3Return

SpecAc3 == InitAc3 /\ [][NextAc3]_vars

\* a complete assignment, one triple per Variable from the sets held on entry,
\* without a violation of severity 10
RECURSIVE HasCleanAssignment(_, _)
HasCleanAssignment(vs, k) ==
    IF k > Len(vs)
    THEN LET viol == check_assignment(vs, domain)
         IN  \A m \in 1..Len(viol) : viol[m].severity < 10
    ELSE \E tr \in Triples(input_cells[k]) :
            HasCleanAssignment([vs EXCEPT ![k] = assign(@, tr[1], tr[2], tr[3])], k + 1)

\* C22: ac3 returns false only if no complete assignment from the entry sets
\* is free of hard violations; when one exists it returns true and every
\* Variable keeps domain_size() > 0
C22_Ac3Sound ==
    (pc = "ac3_done" /\ HasCleanAssignment(variables, 1)) =>
        /\ call_result.value
        /\ \A k \in 1..Len(variables) : domain_size(variables[k], heap) > 0


(***************************************************************************)
(* Termination of ac3                                                      *)
(***************************************************************************)
\* the while loop is executed until it ends
SpecAc3Live == InitAc3 /\ [][NextAc3]_vars /\ WF_vars(NextAc3)

\* the number of elements in the three candidate sets of a cell
CellSize(c) == Cardinality(c.times) + Cardinality(c.rooms) + Cardinality(c.instructors)

\* a _revise call that returned true has removed an element from var1's sets
RevisionRemoves ==
    (pc = "ac3" /\ call_result'.revisions > call_result.revisions) =>
        CellSize(heap'[variables[Head(arcs)[1]].dom])
            < CellSize(heap[variables[Head(arcs)[1]].dom])

MaxChecked == 3

\* dict[key] = value on an insertion-ordered dict kept as a list of pairs
DictSet(dict, key, value) ==
    IF \E n \in 1..Len(dict) : dict[n][1] = key
    THEN [n \in 1..Len(dict) |-> IF dict[n][1] = key THEN <<key, value>> ELSE dict[n]]
    ELSE Append(dict, <<key, value>>)

\* the violations appended for `var` at position k against the dict `usage`
UsageConflicts(vs, k, usage, field, ct) ==
    FlattenSeq([n \in 1..Len(usage) |->
        IF /\ overlaps(usage[n][1], vs[k]._assigned_time)
           /\ vs[usage[n][2]][field] = vs[k][field]
        THEN <<ConstraintViolation(ct, <<k, usage[n][2]>>, 10)>>
        ELSE <<>>])

\* ResourceConflictConstraint.check: resource_usage maps a TimeSlot to the last
\* Variable seen with that slot
RECURSIVE ResourceConflictLoop(_, _, _, _, _)
ResourceConflictLoop(vs, k, rooms, instructors, violations) ==
    IF k > Len(vs) THEN violations
    ELSE IF ~is_assigned(vs[k])
         THEN ResourceConflictLoop(vs, k + 1, rooms, instructors, violations)
         ELSE ResourceConflictLoop(vs, k + 1,
                  DictSet(rooms, vs[k]._assigned_time, k),
                  DictSet(instructors, vs[k]._assigned_time, k),
                  violations
                      \o UsageConflicts(vs, k, rooms, "_assigned_room", "room_conflict")
                      \o UsageConflicts(vs, k, instructors, "_assigned_instructor",
                                        "instructor_conflict"))

ResourceConflictConstraint_check(vs) == ResourceConflictLoop(vs, 1, <<>>, <<>>, <<>>)

CheckResult(op, violations) == [op |-> op, violations |-> violations]

\* constraint.check(variables, domain) on a ResourceConflictConstraint
ResourceConflictCheck ==
    /\ pc = "check"
    /\ call_result' = CheckResult("resource_conflict",
                                  ResourceConflictConstraint_check(variables))
    /\ pc' = "checked"
    /\ UNCHANGED <<domain, variables, heap, input_cells, domain_at_call, last_call,
                   levels_file, gen_result, arcs>>
    /\ UNCHANGED <<solverVars, schedVars>>

\* constraint_manager.check_assignment(variables)
CheckAssignment ==
    /\ pc = "check"
    /\ call_result' = CheckResult("check_assignment", check_assignment(variables, domain))
    /\ pc' = "checked"
    /\ UNCHANGED <<domain, variables, heap, input_cells, domain_at_call, last_call,
                   levels_file, gen_result, arcs>>
    /\ UNCHANGED <<solverVars, schedVars>>

\* two slots of four hours on the same day
L0800 == TimeSlot("Mon", 480, 720)

L1200 == TimeSlot("Mon", 720, 960)

\* lists of one level with every combination of slot, room and instructor
ResourceOptions ==
    {Variable("C", 1, Lec30, 1)} \cup
    {assign(Variable("C", 1, Lec30, 1), t, r, i) :
        t \in {S0900, S0930, S0800}, r \in {"R101", "R102"}, i \in {"I1", "I2"}}

\* lists over two levels with short and long slots
LevelOptions ==
    {Variable("C", l, Lec30, 1) : l \in {1, 2}} \cup
    {assign(Variable("C", l, Lec30, 1), t, "R101", "I1") :
        l \in {1, 2}, t \in {S0900, S0930, S0800, L0800, L1200}}

\* the state when a check is called on a list of Variables
InitCheck ==
    /\ \E n \in 0..MaxChecked, options \in {ResourceOptions, LevelOptions} :
         \E choice \in [1..n -> options] :
            variables = [k \in 1..n |->
                [choice[k] EXCEPT !.course_id = CourseIds[k], !.dom = k]]
    /\ domain = LoadDomain(<<S0900, S0930, S0800, L0800, L1200>>, RoomRows, InstructorIds)
    /\ heap = [r \in Refs |-> NullCell]
    /\ input_cells = <<>>
    /\ pc = "check"
    /\ ExtIdle
    /\ SolverIdle
    /\ SchedulerIdle

NextCheck == ResourceConflictCheck \/ CheckAssignment

SpecCheck == InitCheck /\ [][NextCheck]_vars

\* a violation of type ct in the result names both positions a and b
Names(ct, a, b) ==
    \E n \in 1..Len(call_result.violations) :
        /\ call_result.violations[n].constraint_type = ct
        /\ {a, b} \subseteq SeqToSet(call_result.violations[n].variables)

\* C24: ResourceConflictConstraint.check reports every pair of assigned
\* Variables with overlapping times: a room_conflict naming the pair when the
\* rooms coincide, an instructor_conflict naming it when the instructors do
C24_EveryPairReported ==
    (pc = "checked" /\ call_result.op = "resource_conflict") =>
        \A a, b \in 1..Len(variables) :
            (/\ a < b
             /\ is_assigned(variables[a]) /\ is_assigned(variables[b])
             /\ overlaps(variables[a]._assigned_time, variables[b]._assigned_time)) =>
                /\ variables[a]._assigned_room = variables[b]._assigned_room
                      => Names("room_conflict", a, b)
                /\ variables[a]._assigned_instructor = variables[b]._assigned_instructor
                      => Names("instructor_conflict", a, b)


\* two assigned Variables of one level in the list have overlapping times
SameLevelOverlap ==
    \E a, b \in 1..Len(variables) :
        /\ a < b
        /\ is_assigned(variables[a]) /\ is_assigned(variables[b])
        /\ variables[a].level = variables[b].level
        /\ overlaps(variables[a]._assigned_time, variables[b]._assigned_time)

HasViolation(ct) ==
    \E n \in 1..Len(call_result.violations) :
        call_result.violations[n].constraint_type = ct

MAX_DAILY_HOURS == 6

\* minutes of the assigned slots of `level` on `day`
DailyMinutes(vs, level, day) ==
    SumSeq([k \in 1..Len(vs) |->
        IF is_assigned(vs[k]) /\ vs[k].level = level /\ vs[k]._assigned_time.day = day
        THEN vs[k]._assigned_time.end_time - vs[k]._assigned_time.start_time
        ELSE 0])

DailyHoursExceeded ==
    \E k \in 1..Len(variables) :
        /\ is_assigned(variables[k])
        /\ DailyMinutes(variables, variables[k].level, variables[k]._assigned_time.day)
              > MAX_DAILY_HOURS * 60

\* C26: check_assignment returns a max_hours_exceeded violation, of severity
\* 0.8 and after the hard violations, exactly when the slots of one level on
\* one day add up to more than MAX_DAILY_HOURS
C26_DailyHoursReported ==
    (pc = "checked" /\ call_result.op = "check_assignment") =>
        /\ HasViolation("max_hours_exceeded") <=> DailyHoursExceeded
        /\ \A n \in 1..Len(call_result.violations) :
              call_result.violations[n].constraint_type = "max_hours_exceeded" =>
                  /\ call_result.violations[n].severity = 8
                  /\ \A m \in 1..Len(call_result.violations) :
                        call_result.violations[m].severity = 10 => m < n


(***************************************************************************)
(* _order_values called on one Variable                                    *)
(***************************************************************************)
\* the triples in the order of the three nested loops of _order_values
Enumerated(c, ord) ==
    LET ts == InOrder(ord.times, c.times)
        rs == InOrder(ord.rooms, c.rooms)
        is == InOrder(ord.instructors, c.instructors)
    IN  FlattenSeq([a \in 1..Len(ts) |->
            FlattenSeq([b \in 1..Len(rs) |->
                [e \in 1..Len(is) |-> <<ts[a], rs[b], is[e]>>]])])

OrderResult(raised, values, enumerated) ==
    [op |-> "_order_values", raised |-> raised, values |-> values,
     enumerated |-> enumerated]

\* solver._order_values(variable) returns the sorted triples
OrderValues ==
    /\ pc = "order"
    /\ ~OrderRaises(variables[1], heap)
    /\ call_result' = OrderResult(FALSE, _order_values(variables[1], heap),
                                  Enumerated(heap[variables[1].dom], iter_order))
    /\ variables' = IF Triples(heap[variables[1].dom]) = {} THEN variables
                    ELSE <<unassign(variables[1])>>
    /\ pc' = "ordered"
    /\ UNCHANGED <<domain, heap, input_cells, iter_order, domain_at_call, last_call,
                   levels_file, gen_result, arcs>>
    /\ UNCHANGED <<solverVars, level_arg, max_attempts, sorted_vars, attempt, sched_pos,
                   scheduled_resources, result>>

\* values.sort(reverse=True) raises TypeError on two TimeSlots
OrderValuesRaise ==
    /\ pc = "order"
    /\ OrderRaises(variables[1], heap)
    /\ call_result' = OrderResult(TRUE, <<>>,
                                  Enumerated(heap[variables[1].dom], iter_order))
    /\ variables' = <<unassign(variables[1])>>
    /\ pc' = "ordered"
    /\ UNCHANGED <<domain, heap, input_cells, iter_order, domain_at_call, last_call,
                   levels_file, gen_result, arcs>>
    /\ UNCHANGED <<solverVars, level_arg, max_attempts, sorted_vars, attempt, sched_pos,
                   scheduled_resources, result>>

\* the state when _order_values is called on a Variable, assigned or not
InitOrder ==
    /\ \E sl \in SlotLists, kind \in VarKinds :
         LET d == LoadDomain(sl, RoomRows, InstructorIds)
             v == Variable(CourseIds[1], KindLevel(kind), KindRequirements(kind), 1)
         IN  /\ domain = d
             /\ variables \in {<<v>>, <<assign(v, sl[1], "R101", "I1")>>}
             /\ heap = [r \in Refs |-> IF r = 1 THEN KindCell(kind, d) ELSE NullCell]
             /\ input_cells = <<KindCell(kind, d)>>
             /\ \E ot \in IterationOrders(SeqToSet(sl)),
                   or \in IterationOrders(KindCell(kind, d).rooms),
                   oi \in IterationOrders(InstructorIds) :
                   iter_order = [times |-> ot, rooms |-> or, instructors |-> oi]
    /\ pc = "order"
    /\ ExtIdle
    /\ SolverIdle
    /\ level_arg = 0
    /\ max_attempts = 0
    /\ sorted_vars = <<>>
    /\ attempt = 0
    /\ sched_pos = 0
    /\ scheduled_resources = _reset_resources
    /\ result = NoResult

NextOrder == OrderValues \/ OrderValuesRaise

SpecOrder == InitOrder /\ [][NextOrder]_vars

\* position of a triple in a list of triples
PositionIn(s, tr) == CHOOSE n \in 1..Len(s) : s[n] = tr

\* C27: _order_values returns every triple of the cross product exactly once,
\* in non-increasing order of the score of assigning the Variable alone, with
\* equal scores in the order of enumeration, and the Variable is unassigned
C27_OrderedStable ==
    pc = "ordered" =>
        LET v == variables[1]
            values == call_result.values
        IN  /\ ~call_result.raised
            /\ Len(values) = Cardinality(Triples(heap[v.dom]))
            /\ SeqToSet(values) = Triples(heap[v.dom])
            /\ \A a, b \in 1..Len(values) :
                  a < b =>
                     /\ ~ScoreGT(SoloScore(v, values[b]), SoloScore(v, values[a]))
                     /\ SameScore(SoloScore(v, values[a]), SoloScore(v, values[b])) =>
                           PositionIn(call_result.enumerated, values[a])
                              < PositionIn(call_result.enumerated, values[b])
            /\ ~is_assigned(v)


(***************************************************************************)
(* The order in which schedule_level takes the Variables                   *)
(***************************************************************************)
\* x goes before y, or they are equal, in the order: longer room type name,
\* then larger min_capacity, then fewer candidate times
ConstrainedFirst(x, y) ==
    LET rx == StrLen(x.requirements.room_type)
        ry == StrLen(y.requirements.room_type)
        cx == x.requirements.min_capacity
        cy == y.requirements.min_capacity
    IN  \/ rx > ry
        \/ rx = ry /\ cx > cy
        \/ rx = ry /\ cx = cy
              /\ Cardinality(heap[x.dom].times) <= Cardinality(heap[y.dom].times)

\* C28: _sort_by_constraints returns a permutation of its input ordered by
\* more specific room type, then larger min_capacity, then fewer candidate
\* times: with equal room type and capacity, fewer possible_times come first
C28_MostConstrainedFirst ==
    pc = "sched_attempt" =>
        /\ Len(sorted_vars) = Len(variables)
        /\ SeqToSet(sorted_vars) = 1..Len(variables)
        /\ \A a, b \in 1..Len(sorted_vars) :
              a < b => ConstrainedFirst(variables[sorted_vars[a]], variables[sorted_vars[b]])


(***************************************************************************)
(* propagate_constraints and the Domain                                    *)
(***************************************************************************)
\* C29: when propagate_constraints returns false, every room's and every
\* instructor's available_times is what it was before the call
C29_PropagateAllOrNothing ==
    (/\ pc = "domain" /\ last_call.op = "propagate"
     /\ call_result.op = "propagate_constraints" /\ ~call_result.ret) =>
        AvailableTimes(domain) = AvailableTimes(call_result.domain_before)

(***************************************************************************)
(* schedule_level: the attempts repeat one another                         *)
(***************************************************************************)
\* C30: every attempt of schedule_level starts from the same state, so for
\* any max_attempts >= 1 the call returns the success flag and leaves the
\* assignments that max_attempts = 1 gives, and a failed first attempt is
\* never followed by a successful retry
C30_RetriesRepeatFirstAttempt ==
    (pc = "sched_done" /\ max_attempts >= 1) =>
        /\ call_result.op = "schedule_level"
        /\ result.success = call_result.success
        /\ [k \in 1..Len(variables) |-> Assignment(variables[k])] = call_result.assignments

\* schedule_level returns after a second attempt that followed a failed first
C30_Witness ==
    /\ pc = "sched_done"
    /\ max_attempts = 2
    /\ attempt = 2
    /\ call_result.op = "schedule_level"
    /\ ~call_result.success
    /\ ~result.success
    /\ Len(variables) = 2

====
